---- MODULE Spec2Model ----
(***************************************************************************)
(* tilelive-pgquery: the PgQuery tile source of src/lib/PgQuery.js.        *)
(*                                                                         *)
(* The state is one PgQuery instance (its parameters, maxCoords, the       *)
(* endpoint list pgpools with the pending counters and multipliers, the    *)
(* negotiated useKeyColumn / gzip / headers), the startup probes and the   *)
(* getTile calls in flight.  JavaScript runs every piece of code between   *)
(* two awaits to completion, so one action is one such piece.              *)
(***************************************************************************)
EXTENDS Integers, Sequences, FiniteSets, TLC

(***************************************************************************)
(* Bounds of the model.                                                    *)
(***************************************************************************)
MaxEndpoints == 3
MaxPool == 3
MaxZoom == 1
MaxCalls == 3
MaxSeqCalls == 7
MaxShutdowns == 2

(***************************************************************************)
(* JavaScript values.  undefined, true and false of a tri-state field are  *)
(* the strings below; a column of a row is a record, null or a byte/char   *)
(* sequence.                                                               *)
(***************************************************************************)
Undefined == "undefined"

Truthy(v) == v = "true"

Null == [isnull |-> TRUE, bytes |-> <<>>]

Col(b) == [isnull |-> FALSE, bytes |-> b]

\* the error messages of the errors the code throws
tileDoesNotExist == "Tile does not exist"

ErrInvalidXY == "Invalid (x,y) coordinates"

ErrRows == "Expected just one row"

ErrColumns == "Expected columns"

ErrUpstream == "query failed"

NoKey == [def |-> FALSE, isnull |-> FALSE, bytes |-> <<>>]

KeyOf(col) == [def |-> TRUE, isnull |-> col.isnull, bytes |-> col.bytes]

Err(msg) == [kind |-> "error", msg |-> msg, bytes |-> <<>>, key |-> NoKey]

Tile(b, k) == [kind |-> "tile", msg |-> "", bytes |-> b, key |-> k]

NoResult == [kind |-> "none", msg |-> "", bytes |-> <<>>, key |-> NoKey]

\* what pool.pg.query answered to a call: nothing yet, a rejection, or rows
NoAnswer == [kind |-> "none", rows |-> <<>>]

Failed == [kind |-> "fail", rows |-> <<>>]

Answer(rows) == [kind |-> "rows", rows |-> rows]

(***************************************************************************)
(* zlib: a gzip stream is a two-byte magic, the data and a trailer that    *)
(* gunzip verifies.                                                        *)
(***************************************************************************)
Gzip(b) == <<31, 139>> \o b \o <<Len(b)>>

IsGzip(v) == Len(v) >= 3 /\ v[1] = 31 /\ v[2] = 139 /\ v[Len(v)] = Len(v) - 3

Gunzip(v) == SubSeq(v, 3, Len(v) - 1)

(***************************************************************************)
(* IEEE-754 doubles as far as the dispatcher uses them: a multiplier is    *)
(* the quotient largestMaxpool / max (Infinity or NaN for max = 0), a      *)
(* product multiplier * pending is finite, Infinity or NaN.  Within the    *)
(* bounds of the model the quotients and products below are computed       *)
(* without rounding differences between the exact and the double result.   *)
(***************************************************************************)
Quot(n, d) == [num |-> n, den |-> d]

Times(m, p) ==
  IF m.den # 0 THEN [k |-> "fin", num |-> m.num * p, den |-> m.den]
  ELSE IF m.num # 0 /\ p # 0 THEN [k |-> "inf", num |-> 1, den |-> 0]
  ELSE [k |-> "nan", num |-> 0, den |-> 0]

\* a < b on doubles: false as soon as one side is NaN
Less(a, b) ==
  /\ a.k = "fin"
  /\ \/ b.k = "inf"
     \/ b.k = "fin" /\ a.num * b.den < b.num * a.den

\* a === b on doubles
NumEq(a, b) ==
  \/ a.k = "inf" /\ b.k = "inf"
  \/ a.k = "fin" /\ b.k = "fin" /\ a.num * b.den = b.num * a.den

Leq(a, b) == Less(a, b) \/ NumEq(a, b)

VARIABLES cfg, phase, initError, maxCoords, pgpools, errorsAsEmpty,
          useKeyColumn, gzip, headers, probes, calls, sent, shutdowns

vars == <<cfg, phase, initError, maxCoords, pgpools, errorsAsEmpty,
          useKeyColumn, gzip, headers, probes, calls, sent, shutdowns>>

N == Len(pgpools)

Endpoints == 1..N

(***************************************************************************)
(* init: maxCoords and createPgPool                                        *)
(***************************************************************************)
\* variant: the entry of minzoom itself is left at 0
RECURSIVE MaxCoordsLoopStrict(_, _, _, _)
MaxCoordsLoopStrict(z, minzoom, maxzoom, acc) ==
  IF z <= maxzoom
  THEN MaxCoordsLoopStrict(z + 1, minzoom, maxzoom,
                           Append(acc, IF z > minzoom THEN 2 ^ z ELSE 0))
  ELSE acc

RECURSIVE MaxCoordsLoop(_, _, _, _)
MaxCoordsLoop(z, minzoom, maxzoom, acc) ==
  IF z <= maxzoom
  THEN MaxCoordsLoop(z + 1, minzoom, maxzoom,
                     Append(acc, IF z >= minzoom THEN 2 ^ z ELSE 0))
  ELSE acc

InitMaxCoords(minzoom, maxzoom) == MaxCoordsLoop(0, minzoom, maxzoom, <<>>)

RECURSIVE ReduceMax(_, _, _)
ReduceMax(s, i, a) ==
  IF i > Len(s) THEN a
  ELSE ReduceMax(s, i + 1, IF s[i] > a THEN s[i] ELSE a)

LargestMaxpool(maxpool) == ReduceMax(maxpool, 2, maxpool[1])

\* variant: the quotient is taken the other way round
createPgPoolInverted(maxpool) ==
  [i \in 1..Len(maxpool) |->
     [pending |-> 0, multiplier |-> Quot(maxpool[i], LargestMaxpool(maxpool))]]

createPgPool(maxpool) ==
  [i \in 1..Len(maxpool) |->
     [pending |-> 0, multiplier |-> Quot(LargestMaxpool(maxpool), maxpool[i])]]

(***************************************************************************)
(* validateXY and the endpoint selection of _getTileAsync                  *)
(***************************************************************************)
\* variant: x = maxCoord and y = maxCoord are let through
validateXYInclusive(mc, z, x, y) ==
  IF z < 0 \/ z >= Len(mc) THEN FALSE
  ELSE LET maxCoord == mc[z + 1]
       IN ~(x < 0 \/ x > maxCoord \/ y < 0 \/ y > maxCoord)

validateXY(mc, z, x, y) ==
  IF z < 0 \/ z >= Len(mc) THEN FALSE
  ELSE LET maxCoord == mc[z + 1]
       IN ~(x < 0 \/ x >= maxCoord \/ y < 0 \/ y >= maxCoord)

\* variant: the pending counts are compared without the multiplier
WeightedPlain(pl) == Times(Quot(1, 1), pl.pending)

Weighted(pl) == Times(pl.multiplier, pl.pending)

\* variant: <= in place of <, so that a later endpoint takes over a tie
RECURSIVE PickLoopLastWins(_, _, _)
PickLoopLastWins(pools, i, pool) ==
  IF i > Len(pools) THEN pool
  ELSE PickLoopLastWins(pools, i + 1,
                        IF pool = 0 \/ Leq(Weighted(pools[i]), Weighted(pools[pool]))
                        THEN i ELSE pool)

RECURSIVE PickLoop(_, _, _)
PickLoop(pools, i, pool) ==
  IF i > Len(pools) THEN pool
  ELSE PickLoop(pools, i + 1,
                IF pool = 0 \/ Less(Weighted(pools[i]), Weighted(pools[pool]))
                THEN i ELSE pool)

Pick(pools) == PickLoop(pools, 1, 0)

(***************************************************************************)
(* Parameters.  toBool(value, true) has already turned key and gzip into   *)
(* 'auto', true or false; testOnStartup is the raw parameter: undefined,   *)
(* a string toBool takes for false, or a string whose parts (split on '/'  *)
(* or ',', each through parseInt) are the sequence parts.                  *)
(***************************************************************************)
DefaultTestTile == <<14, 9268, 3575>>

TestUndefined == [kind |-> "undefined", parts |-> <<>>]

TestOff == [kind |-> "false", parts |-> <<>>]

TestAt(parts) == [kind |-> "parts", parts |-> parts]

Params(minzoom, maxzoom, maxpool, eae, key, gz, ct, ce, test) ==
  [minzoom |-> minzoom, maxzoom |-> maxzoom, maxpool |-> maxpool,
   errorsAsEmpty |-> eae, key |-> key, gzip |-> gz,
   contentType |-> ct, contentEncoding |-> ce, testOnStartup |-> test]

\* result: ok = FALSE when it throws, tile = <<>> for the result false
parseTestOnStartup(mc, testOnStartup) ==
  IF testOnStartup.kind = "undefined"
  THEN [ok |-> TRUE, tile |-> DefaultTestTile]
  ELSE IF testOnStartup.kind = "false"
  THEN [ok |-> TRUE, tile |-> <<>>]
  ELSE LET parts == testOnStartup.parts
       IN IF Len(parts) # 3 THEN [ok |-> FALSE, tile |-> <<>>]
          ELSE IF ~validateXY(mc, parts[1], parts[2], parts[3])
          THEN [ok |-> FALSE, tile |-> <<>>]
          ELSE [ok |-> TRUE, tile |-> parts]

(***************************************************************************)
(* The state after construction: parameters checked, maxCoords computed,   *)
(* the pools created, nothing probed yet.                                 *)
(***************************************************************************)
NoStatus ==
  [value |-> <<>>, isGziped |-> FALSE, uncompressed |-> <<>>,
   useKeyColumn |-> FALSE, hashDef |-> FALSE, hash |-> <<>>]

\* the probe of one endpoint: where it stands, what the query answered and
\* the status _testSingleServer returned
NoProbe == [pc |-> "idle", ans |-> NoAnswer, status |-> NoStatus]

NoHeaders == [set |-> FALSE, ct |-> Undefined, ce |-> Undefined]

\* variant: errorsAsEmpty is taken from the parameters before the probe
InitWithEarlyErrors(c) ==
  /\ cfg = c
  /\ phase = "created"
  /\ initError = ""
  /\ maxCoords = InitMaxCoords(c.minzoom, c.maxzoom)
  /\ pgpools = createPgPool(c.maxpool)
  /\ errorsAsEmpty = c.errorsAsEmpty
  /\ useKeyColumn = Undefined
  /\ gzip = Undefined
  /\ headers = NoHeaders
  /\ probes = [i \in 1..Len(c.maxpool) |-> NoProbe]
  /\ calls = <<>>
  /\ sent = [i \in 1..Len(c.maxpool) |-> 0]
  /\ shutdowns = <<>>

InitWith(c) ==
  /\ cfg = c
  /\ phase = "created"
  /\ initError = ""
  /\ maxCoords = InitMaxCoords(c.minzoom, c.maxzoom)
  /\ pgpools = createPgPool(c.maxpool)
  /\ errorsAsEmpty = Undefined
  /\ useKeyColumn = Undefined
  /\ gzip = Undefined
  /\ headers = NoHeaders
  /\ probes = [i \in 1..Len(c.maxpool) |-> NoProbe]
  /\ calls = <<>>
  /\ sent = [i \in 1..Len(c.maxpool) |-> 0]
  /\ shutdowns = <<>>

(***************************************************************************)
(* _getRawTileAsync: the part before the await (validation, pending++,     *)
(* the query handed to the pool) and the part after it (catch / finally).  *)
(***************************************************************************)
\* variant: validateXY is asked before the zoom range
RawCheckXYFirst(z, x, y) ==
  IF ~validateXY(maxCoords, z, x, y) THEN Err(ErrInvalidXY)
  ELSE IF z < cfg.minzoom \/ z > cfg.maxzoom THEN Err(tileDoesNotExist)
  ELSE NoResult

RawCheck(z, x, y) ==
  IF z < cfg.minzoom \/ z > cfg.maxzoom THEN Err(tileDoesNotExist)
  ELSE IF ~validateXY(maxCoords, z, x, y) THEN Err(ErrInvalidXY)
  ELSE NoResult

RawIssue(pools, pool) == [pools EXCEPT ![pool].pending = @ + 1]

RawRelease(pools, pool) == [pools EXCEPT ![pool].pending = @ - 1]

\* variant: the catch block rethrows whatever errorsAsEmpty says
RawCatchRethrow == Err(ErrUpstream)

\* the error a failed query leaves _getRawTileAsync with
RawCatch == IF Truthy(errorsAsEmpty) THEN Err(tileDoesNotExist) ELSE Err(ErrUpstream)

(***************************************************************************)
(* _getTileAsync after the rows arrived                                    *)
(***************************************************************************)
\* variant: the key is attached to the pending gzip promise, so the
\* compressed buffer the caller gets carries none
ProcessRowsKeyOnPromise(res) ==
  IF Len(res) > 0
  THEN IF Len(res) > 1 THEN Err(ErrRows)
       ELSE LET row == res[1]
            IN IF Len(row) # (IF Truthy(useKeyColumn) THEN 2 ELSE 1)
               THEN Err(ErrColumns)
               ELSE LET value == row[1]
                    IN IF ~value.isnull /\ Len(value.bytes) # 0
                       THEN Tile(IF Truthy(gzip) THEN Gzip(value.bytes)
                                                 ELSE value.bytes,
                                 IF Truthy(useKeyColumn) /\ ~Truthy(gzip)
                                 THEN KeyOf(row[2]) ELSE NoKey)
                       ELSE Err(tileDoesNotExist)
  ELSE Err(tileDoesNotExist)

\* variant: only null is taken for a missing tile, not a zero-length value
ProcessRowsNullOnly(res) ==
  IF Len(res) > 0
  THEN IF Len(res) > 1 THEN Err(ErrRows)
       ELSE LET row == res[1]
            IN IF Len(row) # (IF Truthy(useKeyColumn) THEN 2 ELSE 1)
               THEN Err(ErrColumns)
               ELSE LET value == row[1]
                    IN IF ~value.isnull
                       THEN Tile(IF Truthy(gzip) THEN Gzip(value.bytes)
                                                 ELSE value.bytes,
                                 IF Truthy(useKeyColumn) THEN KeyOf(row[2])
                                                         ELSE NoKey)
                       ELSE Err(tileDoesNotExist)
  ELSE Err(tileDoesNotExist)

\* variant: the rows after the first are ignored
ProcessRowsFirstRow(res) ==
  IF Len(res) > 0
  THEN LET row == res[1]
       IN IF Len(row) # (IF Truthy(useKeyColumn) THEN 2 ELSE 1)
          THEN Err(ErrColumns)
          ELSE LET value == row[1]
               IN IF ~value.isnull /\ Len(value.bytes) # 0
                  THEN Tile(IF Truthy(gzip) THEN Gzip(value.bytes)
                                            ELSE value.bytes,
                            IF Truthy(useKeyColumn) THEN KeyOf(row[2])
                                                    ELSE NoKey)
                  ELSE Err(tileDoesNotExist)
  ELSE Err(tileDoesNotExist)

\* variant: a row with more columns than expected is accepted
ProcessRowsAtLeast(res) ==
  IF Len(res) > 0
  THEN IF Len(res) > 1 THEN Err(ErrRows)
       ELSE LET row == res[1]
            IN IF Len(row) < (IF Truthy(useKeyColumn) THEN 2 ELSE 1)
               THEN Err(ErrColumns)
               ELSE LET value == row[1]
                    IN IF ~value.isnull /\ Len(value.bytes) # 0
                       THEN Tile(IF Truthy(gzip) THEN Gzip(value.bytes)
                                                 ELSE value.bytes,
                                 IF Truthy(useKeyColumn) THEN KeyOf(row[2])
                                                         ELSE NoKey)
                       ELSE Err(tileDoesNotExist)
  ELSE Err(tileDoesNotExist)

ProcessRows(res) ==
  IF Len(res) > 0
  THEN IF Len(res) > 1 THEN Err(ErrRows)
       ELSE LET row == res[1]
            IN IF Len(row) # (IF Truthy(useKeyColumn) THEN 2 ELSE 1)
               THEN Err(ErrColumns)
               ELSE LET value == row[1]
                    IN IF ~value.isnull /\ Len(value.bytes) # 0
                       THEN Tile(IF Truthy(gzip) THEN Gzip(value.bytes)
                                                 ELSE value.bytes,
                                 IF Truthy(useKeyColumn) THEN KeyOf(row[2])
                                                         ELSE NoKey)
                       ELSE Err(tileDoesNotExist)
  ELSE Err(tileDoesNotExist)

(***************************************************************************)
(* getTile                                                                 *)
(***************************************************************************)
\* variant: pending++ before the coordinate is validated
GetTileEarlyIssue(z, x, y) ==
  /\ phase = "ready"
  /\ LET pool == Pick(pgpools)
         chk == RawCheck(z, x, y)
     IN /\ pgpools' = RawIssue(pgpools, pool)
        /\ IF chk.kind = "error"
           THEN /\ calls' = Append(calls, [z |-> z, x |-> x, y |-> y,
                                           pool |-> pool, pc |-> "settled",
                                           res |-> chk, ans |-> NoAnswer])
                /\ UNCHANGED sent
           ELSE /\ calls' = Append(calls, [z |-> z, x |-> x, y |-> y,
                                           pool |-> pool, pc |-> "querying",
                                           res |-> NoResult, ans |-> NoAnswer])
                /\ sent' = [sent EXCEPT ![pool] = @ + 1]
  /\ UNCHANGED <<shutdowns, cfg, phase, initError, maxCoords, errorsAsEmpty,
                 useKeyColumn, gzip, headers, probes>>

\* variant: pending++ is left for after the await of the query
GetTileLateIncrement(z, x, y) ==
  /\ phase = "ready"
  /\ LET pool == Pick(pgpools)
         chk == RawCheck(z, x, y)
     IN IF chk.kind = "error"
        THEN /\ calls' = Append(calls, [z |-> z, x |-> x, y |-> y, pool |-> pool,
                                        pc |-> "settled", res |-> chk,
                                        ans |-> NoAnswer])
             /\ UNCHANGED sent
        ELSE /\ calls' = Append(calls, [z |-> z, x |-> x, y |-> y, pool |-> pool,
                                        pc |-> "querying", res |-> NoResult,
                                        ans |-> NoAnswer])
             /\ sent' = [sent EXCEPT ![pool] = @ + 1]
  /\ UNCHANGED <<shutdowns, cfg, phase, initError, maxCoords, pgpools,
                 errorsAsEmpty, useKeyColumn, gzip, headers, probes>>

\* getTile(z, x, y, callback) up to the await of the query
GetTile(z, x, y) ==
  /\ phase = "ready"
  /\ LET pool == Pick(pgpools)
         chk == RawCheck(z, x, y)
     IN IF chk.kind = "error"
        THEN /\ calls' = Append(calls, [z |-> z, x |-> x, y |-> y, pool |-> pool,
                                        pc |-> "settled", res |-> chk,
                                        ans |-> NoAnswer])
             /\ UNCHANGED <<pgpools, sent>>
        ELSE /\ calls' = Append(calls, [z |-> z, x |-> x, y |-> y, pool |-> pool,
                                        pc |-> "querying", res |-> NoResult,
                                        ans |-> NoAnswer])
             /\ pgpools' = RawIssue(pgpools, pool)
             /\ sent' = [sent EXCEPT ![pool] = @ + 1]
  /\ UNCHANGED <<shutdowns, cfg, phase, initError, maxCoords, errorsAsEmpty,
                 useKeyColumn, gzip, headers, probes>>

\* variant: a failed query is sent again to the next endpoint
QueryFailRetry(c) ==
  /\ c \in 1..Len(calls)
  /\ calls[c].pc = "querying"
  /\ LET other == (calls[c].pool % N) + 1
     IN /\ calls' = [calls EXCEPT ![c].pool = other]
        /\ pgpools' = RawIssue(RawRelease(pgpools, calls[c].pool), other)
        /\ sent' = [sent EXCEPT ![other] = @ + 1]
  /\ UNCHANGED <<shutdowns, cfg, phase, initError, maxCoords, errorsAsEmpty,
                 useKeyColumn, gzip, headers, probes>>

\* variant: the errorsAsEmpty branch leaves without releasing the slot
QueryFailDowngradeLeak(c) ==
  /\ c \in 1..Len(calls)
  /\ calls[c].pc = "querying"
  /\ calls' = [calls EXCEPT ![c].pc = "settled", ![c].res = RawCatch,
                             ![c].ans = Failed]
  /\ pgpools' = IF Truthy(errorsAsEmpty) THEN pgpools
                ELSE RawRelease(pgpools, calls[c].pool)
  /\ UNCHANGED <<shutdowns, cfg, phase, initError, maxCoords, errorsAsEmpty,
                 useKeyColumn, gzip, headers, probes, sent>>

\* variant: pending-- after the await instead of in a finally block
QueryFailLeak(c) ==
  /\ c \in 1..Len(calls)
  /\ calls[c].pc = "querying"
  /\ calls' = [calls EXCEPT ![c].pc = "settled", ![c].res = RawCatch,
                             ![c].ans = Failed]
  /\ UNCHANGED <<shutdowns, cfg, phase, initError, maxCoords, pgpools, errorsAsEmpty,
                 useKeyColumn, gzip, headers, probes, sent>>

\* the query of call c fails
QueryFail(c) ==
  /\ c \in 1..Len(calls)
  /\ calls[c].pc = "querying"
  /\ calls' = [calls EXCEPT ![c].pc = "settled", ![c].res = RawCatch,
                             ![c].ans = Failed]
  /\ pgpools' = RawRelease(pgpools, calls[c].pool)
  /\ UNCHANGED <<shutdowns, cfg, phase, initError, maxCoords, errorsAsEmpty,
                 useKeyColumn, gzip, headers, probes, sent>>

\* variant: errorsAsEmpty also swallows the errors thrown after the rows came
QueryRowsDowngrade(c, rows) ==
  /\ c \in 1..Len(calls)
  /\ calls[c].pc = "querying"
  /\ calls' = [calls EXCEPT
                 ![c].pc = "settled",
                 ![c].res = IF ProcessRows(rows).kind = "error"
                               /\ Truthy(errorsAsEmpty)
                            THEN Err(tileDoesNotExist) ELSE ProcessRows(rows),
                 ![c].ans = Answer(rows)]
  /\ pgpools' = RawRelease(pgpools, calls[c].pool)
  /\ UNCHANGED <<shutdowns, cfg, phase, initError, maxCoords, errorsAsEmpty,
                 useKeyColumn, gzip, headers, probes, sent>>

\* the query of call c returns rows
QueryRows(c, rows) ==
  /\ c \in 1..Len(calls)
  /\ calls[c].pc = "querying"
  /\ calls' = [calls EXCEPT ![c].pc = "settled", ![c].res = ProcessRows(rows),
                             ![c].ans = Answer(rows)]
  /\ pgpools' = RawRelease(pgpools, calls[c].pool)
  /\ UNCHANGED <<shutdowns, cfg, phase, initError, maxCoords, errorsAsEmpty,
                 useKeyColumn, gzip, headers, probes, sent>>

\* variant: the rejection handler only logs the error
CallbackOnlyOnSuccess(c) ==
  /\ c \in 1..Len(calls)
  /\ calls[c].pc = "settled"
  /\ calls[c].res.kind = "tile"
  /\ calls' = [calls EXCEPT ![c].pc = "done"]
  /\ UNCHANGED <<shutdowns, cfg, phase, initError, maxCoords, pgpools, errorsAsEmpty,
                 useKeyColumn, gzip, headers, probes, sent>>

\* the promise of call c settles: callback(err) or callback(null, v, headers)
Callback(c) ==
  /\ c \in 1..Len(calls)
  /\ calls[c].pc = "settled"
  /\ calls' = [calls EXCEPT ![c].pc = "done"]
  /\ UNCHANGED <<shutdowns, cfg, phase, initError, maxCoords, pgpools, errorsAsEmpty,
                 useKeyColumn, gzip, headers, probes, sent>>

(***************************************************************************)
(* The startup probe: _testSingleServer and testOnStartupAsync             *)
(***************************************************************************)
ErrEmptyResult == "Empty result was returned by the database"

ErrProbeColumns == "A query is expected to return one or two columns"

ErrZeroLength == "Zero-length tile data was returned"

ErrBadHash == "Query second column was assumed to be a hash key"

ErrDataMismatch == "Tile data do not match"

ErrHashMismatch == "Unexpected tile hash key"

ErrContentType == "contentType parameter must be set"

ErrKeyParam == "The key parameter is set"

ErrTestOnStartup == "Unable to parse testOnStartup param"

ErrNotBoolean == "Both key and nogzip parameters must be set"

\* variant: /^[0-9a-fA-F]+$/, any number of hexadecimal digits
IsHexKeyAnyLength(col) ==
  /\ ~col.isnull
  /\ Len(col.bytes) >= 1
  /\ \A i \in 1..Len(col.bytes) : col.bytes[i] \in 0..15

\* /^[0-9a-fA-F]{10,50}$/ on a string of characters, hex digits being 0..15
IsHexKey(col) ==
  /\ ~col.isnull
  /\ Len(col.bytes) >= 10
  /\ Len(col.bytes) <= 50
  /\ \A i \in 1..Len(col.bytes) : col.bytes[i] \in 0..15

\* variant: only a row without columns is refused, extra columns are ignored
TestRowsAnyColumns(res) ==
  IF Len(res) = 0 THEN [err |-> ErrEmptyResult, status |-> NoStatus]
  ELSE IF Len(res) > 1 THEN [err |-> ErrRows, status |-> NoStatus]
  ELSE LET row == res[1]
       IN IF Len(row) < 1
          THEN [err |-> ErrProbeColumns, status |-> NoStatus]
          ELSE LET value == row[1]
               IN IF value.isnull \/ Len(value.bytes) = 0
                  THEN [err |-> ErrZeroLength, status |-> NoStatus]
                  ELSE IF Len(row) > 1 /\ ~IsHexKey(row[2])
                  THEN [err |-> ErrBadHash, status |-> NoStatus]
                  ELSE [err |-> "",
                        status |->
                          [value |-> value.bytes,
                           isGziped |-> IsGzip(value.bytes),
                           uncompressed |-> IF IsGzip(value.bytes)
                                            THEN Gunzip(value.bytes) ELSE <<>>,
                           useKeyColumn |-> Len(row) > 1,
                           hashDef |-> Len(row) > 1,
                           hash |-> IF Len(row) > 1 THEN row[2].bytes ELSE <<>>]]

\* _testSingleServer once the rows arrived
TestRows(res) ==
  IF Len(res) = 0 THEN [err |-> ErrEmptyResult, status |-> NoStatus]
  ELSE IF Len(res) > 1 THEN [err |-> ErrRows, status |-> NoStatus]
  ELSE LET row == res[1]
       IN IF Len(row) > 2 \/ Len(row) < 1
          THEN [err |-> ErrProbeColumns, status |-> NoStatus]
          ELSE LET value == row[1]
               IN IF value.isnull \/ Len(value.bytes) = 0
                  THEN [err |-> ErrZeroLength, status |-> NoStatus]
                  ELSE IF Len(row) > 1 /\ ~IsHexKey(row[2])
                  THEN [err |-> ErrBadHash, status |-> NoStatus]
                  ELSE [err |-> "",
                        status |->
                          [value |-> value.bytes,
                           isGziped |-> IsGzip(value.bytes),
                           uncompressed |-> IF IsGzip(value.bytes)
                                            THEN Gunzip(value.bytes) ELSE <<>>,
                           useKeyColumn |-> Len(row) > 1,
                           hashDef |-> Len(row) > 1,
                           hash |-> IF Len(row) > 1 THEN row[2].bytes ELSE <<>>]]

StartsWith(s, prefix) ==
  Len(s) >= Len(prefix) /\ SubSeq(s, 1, Len(prefix)) = prefix

JpegMagic == <<255, 216, 255>>

PngMagic == <<137, 80, 78, 71, 13, 10, 26, 10>>

\* variant: only the tile data of the endpoints is compared, not the key
RECURSIVE CompareLoopValueOnly(_, _)
CompareLoopValueOnly(results, i) ==
  IF i > Len(results) THEN ""
  ELSE IF results[1].value # results[i].value THEN ErrDataMismatch
  ELSE CompareLoopValueOnly(results, i + 1)

\* the comparison loop of testOnStartupAsync: the first error, or ""
RECURSIVE CompareLoop(_, _)
CompareLoop(results, i) ==
  IF i > Len(results) THEN ""
  ELSE IF results[1].value # results[i].value THEN ErrDataMismatch
  ELSE IF results[1].hashDef # results[i].hashDef
          \/ results[1].hash # results[i].hash THEN ErrHashMismatch
  ELSE CompareLoop(results, i + 1)

BoolStr(b) == IF b THEN "true" ELSE "false"

\* variant: with gzip auto the payload is compressed whenever the tile is not
\* an image, whether or not the probe payload was gzip data
NegotiateIgnoreGziped(results) ==
  LET info == results[1]
      tileData == IF info.isGziped THEN info.uncompressed ELSE info.value
      isVector == StartsWith(tileData, <<26>>) \/ StartsWith(tileData, <<40>>)
      isJpeg == ~isVector /\ StartsWith(tileData, JpegMagic)
      isPng == ~isVector /\ ~isJpeg /\ StartsWith(tileData, PngMagic)
      contentType == IF isVector THEN "application/x-protobuf"
                     ELSE IF isJpeg THEN "image/jpeg"
                     ELSE IF isPng THEN "image/png"
                     ELSE Undefined
      resultShouldBeGzip == ~(isJpeg \/ isPng)
      gz == IF cfg.gzip = "auto"
            THEN BoolStr(resultShouldBeGzip)
            ELSE cfg.gzip
      ct == IF cfg.contentType # "auto" /\ cfg.contentType # contentType
            THEN cfg.contentType ELSE contentType
      ce == IF cfg.contentEncoding = "auto"
            THEN IF info.isGziped \/ Truthy(gz) THEN "gzip" ELSE Undefined
            ELSE IF cfg.contentEncoding # "" THEN cfg.contentEncoding
            ELSE Undefined
      err == IF CompareLoop(results, 2) # "" THEN CompareLoop(results, 2)
             ELSE IF contentType = Undefined /\ cfg.contentType = "auto"
             THEN ErrContentType
             ELSE IF cfg.key # "auto" /\ cfg.key # BoolStr(info.useKeyColumn)
             THEN ErrKeyParam
             ELSE ""
  IN [err |-> err,
      useKeyColumn |-> BoolStr(info.useKeyColumn),
      gzip |-> gz,
      headers |-> [set |-> TRUE, ct |-> ct, ce |-> ce]]

\* variant: the signature is looked for in the payload as it came, gzip data
\* or not
NegotiateNoGunzip(results) ==
  LET info == results[1]
      tileData == info.value
      isVector == StartsWith(tileData, <<26>>) \/ StartsWith(tileData, <<40>>)
      isJpeg == ~isVector /\ StartsWith(tileData, JpegMagic)
      isPng == ~isVector /\ ~isJpeg /\ StartsWith(tileData, PngMagic)
      contentType == IF isVector THEN "application/x-protobuf"
                     ELSE IF isJpeg THEN "image/jpeg"
                     ELSE IF isPng THEN "image/png"
                     ELSE Undefined
      resultShouldBeGzip == ~(isJpeg \/ isPng)
      gz == IF cfg.gzip = "auto"
            THEN BoolStr(resultShouldBeGzip /\ ~info.isGziped)
            ELSE cfg.gzip
      ct == IF cfg.contentType # "auto" /\ cfg.contentType # contentType
            THEN cfg.contentType ELSE contentType
      ce == IF cfg.contentEncoding = "auto"
            THEN IF info.isGziped \/ Truthy(gz) THEN "gzip" ELSE Undefined
            ELSE IF cfg.contentEncoding # "" THEN cfg.contentEncoding
            ELSE Undefined
      err == IF CompareLoop(results, 2) # "" THEN CompareLoop(results, 2)
             ELSE IF contentType = Undefined /\ cfg.contentType = "auto"
             THEN ErrContentType
             ELSE IF cfg.key # "auto" /\ cfg.key # BoolStr(info.useKeyColumn)
             THEN ErrKeyParam
             ELSE ""
  IN [err |-> err,
      useKeyColumn |-> BoolStr(info.useKeyColumn),
      gzip |-> gz,
      headers |-> [set |-> TRUE, ct |-> ct, ce |-> ce]]

\* variant: the compression decision is taken from the content type after
\* the contentType parameter has been applied
NegotiateOverrideDecides(results) ==
  LET info == results[1]
      tileData == IF info.isGziped THEN info.uncompressed ELSE info.value
      isVector == StartsWith(tileData, <<26>>) \/ StartsWith(tileData, <<40>>)
      isJpeg == ~isVector /\ StartsWith(tileData, JpegMagic)
      isPng == ~isVector /\ ~isJpeg /\ StartsWith(tileData, PngMagic)
      contentType == IF isVector THEN "application/x-protobuf"
                     ELSE IF isJpeg THEN "image/jpeg"
                     ELSE IF isPng THEN "image/png"
                     ELSE Undefined
      ct == IF cfg.contentType # "auto" /\ cfg.contentType # contentType
            THEN cfg.contentType ELSE contentType
      resultShouldBeGzip == ct \notin {"image/jpeg", "image/png"}
      gz == IF cfg.gzip = "auto"
            THEN BoolStr(resultShouldBeGzip /\ ~info.isGziped)
            ELSE cfg.gzip
      ce == IF cfg.contentEncoding = "auto"
            THEN IF info.isGziped \/ Truthy(gz) THEN "gzip" ELSE Undefined
            ELSE IF cfg.contentEncoding # "" THEN cfg.contentEncoding
            ELSE Undefined
      err == IF CompareLoop(results, 2) # "" THEN CompareLoop(results, 2)
             ELSE IF contentType = Undefined /\ cfg.contentType = "auto"
             THEN ErrContentType
             ELSE IF cfg.key # "auto" /\ cfg.key # BoolStr(info.useKeyColumn)
             THEN ErrKeyParam
             ELSE ""
  IN [err |-> err,
      useKeyColumn |-> BoolStr(info.useKeyColumn),
      gzip |-> gz,
      headers |-> [set |-> TRUE, ct |-> ct, ce |-> ce]]

\* variant: Content-Encoding follows the compression flag alone
NegotiateEncodingFlagOnly(results) ==
  LET info == results[1]
      tileData == IF info.isGziped THEN info.uncompressed ELSE info.value
      isVector == StartsWith(tileData, <<26>>) \/ StartsWith(tileData, <<40>>)
      isJpeg == ~isVector /\ StartsWith(tileData, JpegMagic)
      isPng == ~isVector /\ ~isJpeg /\ StartsWith(tileData, PngMagic)
      contentType == IF isVector THEN "application/x-protobuf"
                     ELSE IF isJpeg THEN "image/jpeg"
                     ELSE IF isPng THEN "image/png"
                     ELSE Undefined
      resultShouldBeGzip == ~(isJpeg \/ isPng)
      gz == IF cfg.gzip = "auto"
            THEN BoolStr(resultShouldBeGzip /\ ~info.isGziped)
            ELSE cfg.gzip
      ct == IF cfg.contentType # "auto" /\ cfg.contentType # contentType
            THEN cfg.contentType ELSE contentType
      ce == IF cfg.contentEncoding = "auto"
            THEN IF Truthy(gz) THEN "gzip" ELSE Undefined
            ELSE IF cfg.contentEncoding # "" THEN cfg.contentEncoding
            ELSE Undefined
      err == IF CompareLoop(results, 2) # "" THEN CompareLoop(results, 2)
             ELSE IF contentType = Undefined /\ cfg.contentType = "auto"
             THEN ErrContentType
             ELSE IF cfg.key # "auto" /\ cfg.key # BoolStr(info.useKeyColumn)
             THEN ErrKeyParam
             ELSE ""
  IN [err |-> err,
      useKeyColumn |-> BoolStr(info.useKeyColumn),
      gzip |-> gz,
      headers |-> [set |-> TRUE, ct |-> ct, ce |-> ce]]

\* variant: the PNG signature is not looked for
NegotiateNoPng(results) ==
  LET info == results[1]
      tileData == IF info.isGziped THEN info.uncompressed ELSE info.value
      isVector == StartsWith(tileData, <<26>>) \/ StartsWith(tileData, <<40>>)
      isJpeg == ~isVector /\ StartsWith(tileData, JpegMagic)
      contentType == IF isVector THEN "application/x-protobuf"
                     ELSE IF isJpeg THEN "image/jpeg"
                     ELSE Undefined
      resultShouldBeGzip == ~isJpeg
      gz == IF cfg.gzip = "auto"
            THEN BoolStr(resultShouldBeGzip /\ ~info.isGziped)
            ELSE cfg.gzip
      ct == IF cfg.contentType # "auto" /\ cfg.contentType # contentType
            THEN cfg.contentType ELSE contentType
      ce == IF cfg.contentEncoding = "auto"
            THEN IF info.isGziped \/ Truthy(gz) THEN "gzip" ELSE Undefined
            ELSE IF cfg.contentEncoding # "" THEN cfg.contentEncoding
            ELSE Undefined
      err == IF CompareLoop(results, 2) # "" THEN CompareLoop(results, 2)
             ELSE IF contentType = Undefined /\ cfg.contentType = "auto"
             THEN ErrContentType
             ELSE IF cfg.key # "auto" /\ cfg.key # BoolStr(info.useKeyColumn)
             THEN ErrKeyParam
             ELSE ""
  IN [err |-> err,
      useKeyColumn |-> BoolStr(info.useKeyColumn),
      gzip |-> gz,
      headers |-> [set |-> TRUE, ct |-> ct, ce |-> ce]]

\* variant: with gzip auto an image is compressed like any other payload
NegotiateCompressImages(results) ==
  LET info == results[1]
      tileData == IF info.isGziped THEN info.uncompressed ELSE info.value
      isVector == StartsWith(tileData, <<26>>) \/ StartsWith(tileData, <<40>>)
      isJpeg == ~isVector /\ StartsWith(tileData, JpegMagic)
      isPng == ~isVector /\ ~isJpeg /\ StartsWith(tileData, PngMagic)
      contentType == IF isVector THEN "application/x-protobuf"
                     ELSE IF isJpeg THEN "image/jpeg"
                     ELSE IF isPng THEN "image/png"
                     ELSE Undefined
      gz == IF cfg.gzip = "auto"
            THEN BoolStr(~info.isGziped)
            ELSE cfg.gzip
      ct == IF cfg.contentType # "auto" /\ cfg.contentType # contentType
            THEN cfg.contentType ELSE contentType
      ce == IF cfg.contentEncoding = "auto"
            THEN IF info.isGziped \/ Truthy(gz) THEN "gzip" ELSE Undefined
            ELSE IF cfg.contentEncoding # "" THEN cfg.contentEncoding
            ELSE Undefined
      err == IF CompareLoop(results, 2) # "" THEN CompareLoop(results, 2)
             ELSE IF contentType = Undefined /\ cfg.contentType = "auto"
             THEN ErrContentType
             ELSE IF cfg.key # "auto" /\ cfg.key # BoolStr(info.useKeyColumn)
             THEN ErrKeyParam
             ELSE ""
  IN [err |-> err,
      useKeyColumn |-> BoolStr(info.useKeyColumn),
      gzip |-> gz,
      headers |-> [set |-> TRUE, ct |-> ct, ce |-> ce]]

\* variant: a key parameter that is set decides, the probe row is not asked
NegotiateKeyParamWins(results) ==
  LET info == results[1]
      tileData == IF info.isGziped THEN info.uncompressed ELSE info.value
      isVector == StartsWith(tileData, <<26>>) \/ StartsWith(tileData, <<40>>)
      isJpeg == ~isVector /\ StartsWith(tileData, JpegMagic)
      isPng == ~isVector /\ ~isJpeg /\ StartsWith(tileData, PngMagic)
      contentType == IF isVector THEN "application/x-protobuf"
                     ELSE IF isJpeg THEN "image/jpeg"
                     ELSE IF isPng THEN "image/png"
                     ELSE Undefined
      resultShouldBeGzip == ~(isJpeg \/ isPng)
      gz == IF cfg.gzip = "auto"
            THEN BoolStr(resultShouldBeGzip /\ ~info.isGziped)
            ELSE cfg.gzip
      ct == IF cfg.contentType # "auto" /\ cfg.contentType # contentType
            THEN cfg.contentType ELSE contentType
      ce == IF cfg.contentEncoding = "auto"
            THEN IF info.isGziped \/ Truthy(gz) THEN "gzip" ELSE Undefined
            ELSE IF cfg.contentEncoding # "" THEN cfg.contentEncoding
            ELSE Undefined
      err == IF CompareLoop(results, 2) # "" THEN CompareLoop(results, 2)
             ELSE IF contentType = Undefined /\ cfg.contentType = "auto"
             THEN ErrContentType
             ELSE ""
  IN [err |-> err,
      useKeyColumn |-> IF cfg.key # "auto" THEN cfg.key
                       ELSE BoolStr(info.useKeyColumn),
      gzip |-> gz,
      headers |-> [set |-> TRUE, ct |-> ct, ce |-> ce]]

\* variant: only a detected vector tile is to be compressed
NegotiateVectorOnly(results) ==
  LET info == results[1]
      tileData == IF info.isGziped THEN info.uncompressed ELSE info.value
      isVector == StartsWith(tileData, <<26>>) \/ StartsWith(tileData, <<40>>)
      isJpeg == ~isVector /\ StartsWith(tileData, JpegMagic)
      isPng == ~isVector /\ ~isJpeg /\ StartsWith(tileData, PngMagic)
      contentType == IF isVector THEN "application/x-protobuf"
                     ELSE IF isJpeg THEN "image/jpeg"
                     ELSE IF isPng THEN "image/png"
                     ELSE Undefined
      resultShouldBeGzip == isVector
      gz == IF cfg.gzip = "auto"
            THEN BoolStr(resultShouldBeGzip /\ ~info.isGziped)
            ELSE cfg.gzip
      ct == IF cfg.contentType # "auto" /\ cfg.contentType # contentType
            THEN cfg.contentType ELSE contentType
      ce == IF cfg.contentEncoding = "auto"
            THEN IF info.isGziped \/ Truthy(gz) THEN "gzip" ELSE Undefined
            ELSE IF cfg.contentEncoding # "" THEN cfg.contentEncoding
            ELSE Undefined
      err == IF CompareLoop(results, 2) # "" THEN CompareLoop(results, 2)
             ELSE IF contentType = Undefined /\ cfg.contentType = "auto"
             THEN ErrContentType
             ELSE IF cfg.key # "auto" /\ cfg.key # BoolStr(info.useKeyColumn)
             THEN ErrKeyParam
             ELSE ""
  IN [err |-> err,
      useKeyColumn |-> BoolStr(info.useKeyColumn),
      gzip |-> gz,
      headers |-> [set |-> TRUE, ct |-> ct, ce |-> ce]]

\* testOnStartupAsync after Promise.all: the error thrown, or the fields set
Negotiate(results) ==
  LET info == results[1]
      tileData == IF info.isGziped THEN info.uncompressed ELSE info.value
      isVector == StartsWith(tileData, <<26>>) \/ StartsWith(tileData, <<40>>)
      isJpeg == ~isVector /\ StartsWith(tileData, JpegMagic)
      isPng == ~isVector /\ ~isJpeg /\ StartsWith(tileData, PngMagic)
      contentType == IF isVector THEN "application/x-protobuf"
                     ELSE IF isJpeg THEN "image/jpeg"
                     ELSE IF isPng THEN "image/png"
                     ELSE Undefined
      resultShouldBeGzip == ~(isJpeg \/ isPng)
      gz == IF cfg.gzip = "auto"
            THEN BoolStr(resultShouldBeGzip /\ ~info.isGziped)
            ELSE cfg.gzip
      ct == IF cfg.contentType # "auto" /\ cfg.contentType # contentType
            THEN cfg.contentType ELSE contentType
      ce == IF cfg.contentEncoding = "auto"
            THEN IF info.isGziped \/ Truthy(gz) THEN "gzip" ELSE Undefined
            ELSE IF cfg.contentEncoding # "" THEN cfg.contentEncoding
            ELSE Undefined
      err == IF CompareLoop(results, 2) # "" THEN CompareLoop(results, 2)
             ELSE IF contentType = Undefined /\ cfg.contentType = "auto"
             THEN ErrContentType
             ELSE IF cfg.key # "auto" /\ cfg.key # BoolStr(info.useKeyColumn)
             THEN ErrKeyParam
             ELSE ""
  IN [err |-> err,
      useKeyColumn |-> BoolStr(info.useKeyColumn),
      gzip |-> gz,
      headers |-> [set |-> TRUE, ct |-> ct, ce |-> ce]]

\* init: parseTestOnStartup throws
InitBadTestTile ==
  /\ phase = "created"
  /\ ~parseTestOnStartup(maxCoords, cfg.testOnStartup).ok
  /\ phase' = "failed"
  /\ initError' = ErrTestOnStartup
  /\ UNCHANGED <<shutdowns, cfg, maxCoords, pgpools, errorsAsEmpty, useKeyColumn, gzip,
                 headers, probes, calls, sent>>

\* the literal the gzip parameter is compared with when probing is disabled:
\* the four letters of auto followed by a backtick
AutoBacktick == "auto[backtick]"

\* init with testOnStartup disabled
InitNoProbe ==
  /\ phase = "created"
  /\ parseTestOnStartup(maxCoords, cfg.testOnStartup).ok
  /\ parseTestOnStartup(maxCoords, cfg.testOnStartup).tile = <<>>
  /\ IF cfg.key = "auto" \/ cfg.gzip = AutoBacktick
     THEN /\ phase' = "failed"
          /\ initError' = ErrNotBoolean
          /\ UNCHANGED errorsAsEmpty
     ELSE /\ phase' = "ready"
          /\ errorsAsEmpty' = cfg.errorsAsEmpty
          /\ UNCHANGED initError
  /\ UNCHANGED <<shutdowns, cfg, maxCoords, pgpools, useKeyColumn, gzip, headers,
                 probes, calls, sent>>

\* init: testOnStartupAsync starts one _testSingleServer per pool
StartProbe ==
  /\ phase = "created"
  /\ parseTestOnStartup(maxCoords, cfg.testOnStartup).ok
  /\ parseTestOnStartup(maxCoords, cfg.testOnStartup).tile # <<>>
  /\ LET t == parseTestOnStartup(maxCoords, cfg.testOnStartup).tile
         chk == RawCheck(t[1], t[2], t[3])
     IN IF chk.kind = "error"
        THEN /\ phase' = "failed"
             /\ initError' = chk.msg
             /\ probes' = [e \in Endpoints |-> [probes[e] EXCEPT !.pc = "failed"]]
             /\ UNCHANGED <<pgpools, sent>>
        ELSE /\ phase' = "probing"
             /\ probes' = [e \in Endpoints |-> [probes[e] EXCEPT !.pc = "querying"]]
             /\ pgpools' = [e \in Endpoints |-> RawIssue(pgpools, e)[e]]
             /\ sent' = [e \in Endpoints |-> sent[e] + 1]
             /\ UNCHANGED initError
  /\ UNCHANGED <<shutdowns, cfg, maxCoords, errorsAsEmpty, useKeyColumn, gzip, headers,
                 calls>>

\* variant: useKeyColumn is written before the key parameter is checked
ProbeSettledEarlyAssign(e, r) ==
  LET np == [probes EXCEPT ![e] = [pc |-> IF r.err = "" THEN "ok" ELSE "failed",
                                   ans |-> r.ans, status |-> r.status]]
      allOk == \A i \in Endpoints : np[i].pc = "ok"
      neg == Negotiate([i \in Endpoints |-> np[i].status])
  IN /\ probes' = np
     /\ pgpools' = RawRelease(pgpools, e)
     /\ IF phase = "probing" /\ r.err # ""
        THEN /\ phase' = "failed"
             /\ initError' = r.err
             /\ UNCHANGED <<errorsAsEmpty, useKeyColumn, gzip, headers>>
        ELSE IF phase = "probing" /\ allOk
        THEN IF neg.err # ""
             THEN /\ phase' = "failed"
                  /\ initError' = neg.err
                  /\ useKeyColumn' = IF neg.err = ErrKeyParam
                                     THEN neg.useKeyColumn ELSE useKeyColumn
                  /\ UNCHANGED <<errorsAsEmpty, gzip, headers>>
             ELSE /\ phase' = "ready"
                  /\ useKeyColumn' = neg.useKeyColumn
                  /\ gzip' = neg.gzip
                  /\ headers' = neg.headers
                  /\ errorsAsEmpty' = cfg.errorsAsEmpty
                  /\ UNCHANGED initError
        ELSE UNCHANGED <<phase, initError, errorsAsEmpty, useKeyColumn, gzip,
                         headers>>
     /\ UNCHANGED <<shutdowns, cfg, maxCoords, calls, sent>>

\* what a settled probe of endpoint e does to init, given its error or status
ProbeSettled(e, r) ==
  LET np == [probes EXCEPT ![e] = [pc |-> IF r.err = "" THEN "ok" ELSE "failed",
                                   ans |-> r.ans, status |-> r.status]]
      allOk == \A i \in Endpoints : np[i].pc = "ok"
      neg == Negotiate([i \in Endpoints |-> np[i].status])
  IN /\ probes' = np
     /\ pgpools' = RawRelease(pgpools, e)
     /\ IF phase = "probing" /\ r.err # ""
        THEN /\ phase' = "failed"
             /\ initError' = r.err
             /\ UNCHANGED <<errorsAsEmpty, useKeyColumn, gzip, headers>>
        ELSE IF phase = "probing" /\ allOk
        THEN IF neg.err # ""
             THEN /\ phase' = "failed"
                  /\ initError' = neg.err
                  /\ UNCHANGED <<errorsAsEmpty, useKeyColumn, gzip, headers>>
             ELSE /\ phase' = "ready"
                  /\ useKeyColumn' = neg.useKeyColumn
                  /\ gzip' = neg.gzip
                  /\ headers' = neg.headers
                  /\ errorsAsEmpty' = cfg.errorsAsEmpty
                  /\ UNCHANGED initError
        ELSE UNCHANGED <<phase, initError, errorsAsEmpty, useKeyColumn, gzip,
                         headers>>
     /\ UNCHANGED <<shutdowns, cfg, maxCoords, calls, sent>>

\* the probe query of endpoint e fails
ProbeFail(e) ==
  /\ e \in Endpoints
  /\ probes[e].pc = "querying"
  /\ ProbeSettled(e, [err |-> RawCatch.msg, ans |-> Failed, status |-> NoStatus])

\* the probe query of endpoint e returns rows
ProbeRows(e, rows) ==
  /\ e \in Endpoints
  /\ probes[e].pc = "querying"
  /\ ProbeSettled(e, [err |-> TestRows(rows).err, ans |-> Answer(rows),
                      status |-> TestRows(rows).status])

(***************************************************************************)
(* The environment: parameter sets, tile coordinates asked for and the     *)
(* answers of the backend.                                                 *)
(***************************************************************************)
VTile == <<26, 8>>

JpgTile == <<255, 216, 255, 8>>

HexKey == <<10, 8, 3, 7, 2, 4, 3, 2, 11, 7>>

NotHexKey == <<10, 8, 3, 7, 2, 4, 3, 2, 11, 16>>

SeqsUpTo(n, S) == UNION {[1..k -> S] : k \in 1..n}

ZoomRanges == {<<a, b>> \in (0..MaxZoom) \X (0..MaxZoom) : a <= b}

\* the service under concurrent calls
Configs ==
  {Params(0, MaxZoom, mp, eae, "auto", "auto", "auto", "auto", t) :
     mp \in {<<1>>, <<1, 2>>, <<2, 2>>, <<2, 0>>},
     eae \in {Undefined, "true"},
     t \in {TestAt(<<MaxZoom, 0, 0>>)}}
  \cup
  {Params(0, MaxZoom, <<2, 1>>, "true", k, "true", "auto", "auto", t) :
     k \in {"auto", "false"},
     t \in {TestOff, TestAt(<<MaxZoom + 1, 0, 0>>), TestAt(<<0, 0>>),
            TestUndefined}}

Coords == {<<0, 0, 0>>, <<MaxZoom + 1, 0, 0>>, <<0, 1, 0>>}

ProbeAnswers ==
  {<<>>, <<<<Col(VTile)>>>>, <<<<Col(VTile), Col(HexKey)>>>>,
   <<<<Col(VTile)>>, <<Col(VTile)>>>>}

Rows == {<<>>, <<<<Col(VTile)>>>>}

Init == \E c \in Configs : InitWith(c)

Next ==
  \/ InitBadTestTile
  \/ InitNoProbe
  \/ StartProbe
  \/ \E e \in 1..MaxEndpoints : ProbeFail(e)
  \/ \E e \in 1..MaxEndpoints : \E rows \in ProbeAnswers : ProbeRows(e, rows)
  \/ \E t \in Coords : Len(calls) < MaxCalls /\ GetTile(t[1], t[2], t[3])
  \/ \E c \in 1..MaxCalls : QueryFail(c)
  \/ \E c \in 1..MaxCalls : \E rows \in Rows : QueryRows(c, rows)
  \/ \E c \in 1..MaxCalls : Callback(c)

Spec == Init /\ [][Next]_vars

(***************************************************************************)
(* Sequential dispatches with no completion in between: probing disabled,  *)
(* every pending starts at 0 and only getTile calls for a valid tile run.  *)
(***************************************************************************)
SeqConfigs ==
  {Params(0, MaxZoom, mp, Undefined, "false", "true", "auto", "auto", TestOff) :
     mp \in SeqsUpTo(MaxEndpoints, 0..MaxPool)}

InitSeq == \E c \in SeqConfigs : InitWith(c)

NextSeq ==
  \/ InitNoProbe
  \/ Len(calls) < MaxSeqCalls /\ GetTile(0, 0, 0)

SpecSeq == InitSeq /\ [][NextSeq]_vars

(***************************************************************************)
(* Load balancing: probing disabled, every list of maxpool values, calls    *)
(* for a valid tile that are answered and called back in any order.        *)
(***************************************************************************)
NextLoad ==
  \/ InitNoProbe
  \/ Len(calls) < MaxCalls /\ GetTile(0, 0, 0)
  \/ \E c \in 1..MaxCalls : QueryRows(c, <<<<Col(VTile)>>>>)
  \/ \E c \in 1..MaxCalls : Callback(c)

SpecLoad == InitSeq /\ [][NextLoad]_vars

(***************************************************************************)
(* A single fetch over every coordinate around the zoom range and     *)
(* every shape of answer.                                                  *)
(***************************************************************************)
FetchConfigs ==
  {Params(zr[1], zr[2], mp, eae, k, "auto", "auto", "auto",
          IF probe THEN TestAt(<<zr[2], 0, 0>>) ELSE TestOff) :
     zr \in ZoomRanges, mp \in {<<1>>, <<1, 2>>},
     eae \in {Undefined, "true"}, k \in {"auto", "true", "false"},
     probe \in BOOLEAN}

FetchCoords ==
  (-1..(MaxZoom + 1)) \X (-1..(2 ^ MaxZoom)) \X (-1..(2 ^ MaxZoom))

Values == {Null, Col(<<>>), Col(VTile)}

FetchRows ==
  {<<>>}
  \cup {<<row>> : row \in {<<>>} \cup {<<v>> : v \in Values}
                           \cup {<<v, Col(HexKey)>> : v \in Values}
                           \cup {<<Col(VTile), Col(HexKey), Col(HexKey)>>}}
  \cup {<<<<Col(VTile)>>, <<Col(VTile)>>>>,
        <<<<Col(VTile), Col(HexKey)>>, <<Col(VTile), Col(HexKey)>>>>}

FetchProbeAnswers ==
  {<<<<Col(VTile)>>>>, <<<<Col(VTile), Col(HexKey)>>>>,
   <<<<Col(VTile), Col(NotHexKey)>>>>}

InitFetch == \E c \in FetchConfigs : InitWith(c)

NextFetch ==
  \/ InitNoProbe
  \/ StartProbe
  \/ \E e \in 1..MaxEndpoints : \E rows \in FetchProbeAnswers : ProbeRows(e, rows)
  \/ \E t \in FetchCoords : calls = <<>> /\ GetTile(t[1], t[2], t[3])
  \/ QueryFail(1)
  \/ \E rows \in FetchRows : QueryRows(1, rows)
  \/ Callback(1)

SpecFetch == InitFetch /\ [][NextFetch]_vars

(***************************************************************************)
(* Startup probe and calls whose queries all settle: the pool answers or   *)
(* rejects every query handed to it, so each await of _getRawTileAsync     *)
(* resumes.                                                                *)
(***************************************************************************)
LiveConfigs ==
  {Params(0, MaxZoom, mp, eae, "auto", "auto", "auto", "auto",
          TestAt(<<0, 0, 0>>)) :
     mp \in {<<1>>, <<2, 1>>}, eae \in {Undefined, "true"}}

InitLive == \E c \in LiveConfigs : InitWith(c)

\* the await of call c resumes
Settle(c) == QueryFail(c) \/ QueryRows(c, <<<<Col(VTile)>>>>)

\* the await of the probe of endpoint e resumes
ProbeSettle(e) == ProbeFail(e) \/ ProbeRows(e, <<<<Col(VTile)>>>>)

NextLive ==
  \/ StartProbe
  \/ \E e \in 1..MaxEndpoints : ProbeSettle(e)
  \/ Len(calls) < MaxCalls /\ GetTile(0, 0, 0)
  \/ \E c \in 1..MaxCalls : Settle(c)
  \/ \E c \in 1..MaxCalls : Callback(c)

LiveSpec ==
  /\ InitLive
  /\ [][NextLive]_vars
  /\ \A c \in 1..MaxCalls : WF_vars(Settle(c))
  /\ \A e \in 1..MaxEndpoints : WF_vars(ProbeSettle(e))

(***************************************************************************)
(* The same, with the reactions of getTile to the settled promise run as   *)
(* well: a settled promise always gets its then-handler called.            *)
(***************************************************************************)
LiveCallSpec ==
  /\ InitLive
  /\ [][NextLive]_vars
  /\ \A c \in 1..MaxCalls : WF_vars(Settle(c))
  /\ \A e \in 1..MaxEndpoints : WF_vars(ProbeSettle(e))
  /\ \A c \in 1..MaxCalls : WF_vars(Callback(c))

(***************************************************************************)
(* shutdownAsync.  The pools are Pool objects of the pg package (the       *)
(* dependency "pg": "^8.10.0"): the first end() marks a pool as ending and *)
(* its promise resolves once the pool has let go of its clients, i.e. when *)
(* the queries it was running have finished; a further end() on the same   *)
(* pool is rejected ('Called end on pool more than once'), and a query     *)
(* handed to a pool after end() is rejected ('Cannot use a pool after      *)
(* calling end on the pool').  PgQuery keeps no record of its own that it  *)
(* has been shut down.                                                     *)
(***************************************************************************)
\* end() has been called on the pools
Ending == shutdowns # <<>>

\* the query of call c was handed to its pool after end()
Refused(c) == Ending /\ c > shutdowns[1].at

\* pool e has finished the queries it was running when end() was called
Ended(e) ==
  /\ Ending
  /\ \A c \in 1..Len(calls) :
       ~(calls[c].pc = "querying" /\ calls[c].pool = e /\ ~Refused(c))

\* shutdownAsync(): end() on every pool, Promise.all of the promises
ShutdownAsync ==
  /\ phase = "ready"
  /\ Len(shutdowns) < MaxShutdowns
  /\ shutdowns' = Append(shutdowns,
                         [at |-> Len(calls),
                          pc |-> IF Ending THEN "rejected" ELSE "ending"])
  /\ UNCHANGED <<cfg, phase, initError, maxCoords, pgpools, errorsAsEmpty,
                 useKeyColumn, gzip, headers, probes, calls, sent>>

\* the promise of shutdownAsync call s resolves: every pool has ended
ShutdownSettled(s) ==
  /\ s \in 1..Len(shutdowns)
  /\ shutdowns[s].pc = "ending"
  /\ \A e \in 1..N : Ended(e)
  /\ shutdowns' = [shutdowns EXCEPT ![s].pc = "resolved"]
  /\ UNCHANGED <<cfg, phase, initError, maxCoords, pgpools, errorsAsEmpty,
                 useKeyColumn, gzip, headers, probes, calls, sent>>

\* getInfo(callback): the callback gets the tilejson built from _params
GetInfo ==
  /\ phase = "ready"
  /\ UNCHANGED vars

ShutdownConfigs ==
  {Params(0, MaxZoom, mp, Undefined, "auto", "auto", "auto", "auto",
          TestAt(<<0, 0, 0>>)) :
     mp \in {<<1>>, <<2, 1>>}}

InitShutdown == \E c \in ShutdownConfigs : InitWith(c)

NextShutdown ==
  \/ StartProbe
  \/ \E e \in 1..MaxEndpoints : ProbeRows(e, <<<<Col(VTile)>>>>)
  \/ Len(calls) < MaxCalls /\ \E x \in 0..1 : GetTile(0, x, 0)
  \/ \E c \in 1..MaxCalls : QueryFail(c)
  \/ \E c \in 1..MaxCalls : ~Refused(c) /\ QueryRows(c, <<<<Col(VTile)>>>>)
  \/ \E c \in 1..MaxCalls : Callback(c)
  \/ GetInfo
  \/ ShutdownAsync
  \/ \E s \in 1..MaxShutdowns : ShutdownSettled(s)

SpecShutdown == InitShutdown /\ [][NextShutdown]_vars

(***************************************************************************)
(* A callback that throws.  getTile chains                                 *)
(*   promise.then(onTile, onError).catch(nested).catch(log):               *)
(* an exception out of the callback, called by onTile or by onError,       *)
(* rejects the promise that then() returned, and the first catch handler   *)
(* runs.                                                                   *)
(***************************************************************************)
\* the promise of call c settles and the callback throws
CallbackThrows(c) ==
  /\ c \in 1..Len(calls)
  /\ calls[c].pc = "settled"
  /\ calls' = [calls EXCEPT ![c].pc = "threw"]
  /\ UNCHANGED <<shutdowns, cfg, phase, initError, maxCoords, pgpools,
                 errorsAsEmpty, useKeyColumn, gzip, headers, probes, sent>>

\* the first catch handler: callback(err) with what the callback threw,
\* then console.error('Nested crash ...')
NestedCatch(c) ==
  /\ c \in 1..Len(calls)
  /\ calls[c].pc = "threw"
  /\ calls' = [calls EXCEPT ![c].pc = "again"]
  /\ UNCHANGED <<shutdowns, cfg, phase, initError, maxCoords, pgpools,
                 errorsAsEmpty, useKeyColumn, gzip, headers, probes, sent>>

NextThrow ==
  \/ NextLive
  \/ \E c \in 1..MaxCalls : CallbackThrows(c)
  \/ \E c \in 1..MaxCalls : NestedCatch(c)

SpecThrow == InitLive /\ [][NextThrow]_vars

(***************************************************************************)
(* The negotiated format: one or two endpoints probed with payloads of     *)
(* every recognised and unrecognised kind, gzipped or not, with or without *)
(* a key, under every setting of key, gzip, contentType and                *)
(* contentEncoding; then one fetch whose row holds any of these payloads.  *)
(***************************************************************************)
PngTile == <<137, 80, 78, 71, 13, 10, 26, 10, 8>>

OtherTile == <<1, 2>>

FormatTiles ==
  {VTile, Gzip(VTile), JpgTile, Gzip(JpgTile), PngTile, OtherTile}

FormatConfigs ==
  {Params(0, 0, mp, Undefined, k, gz, ct, ce, TestAt(<<0, 0, 0>>)) :
     mp \in {<<1>>, <<1, 1>>},
     k \in {"auto", "true", "false"}, gz \in {"auto", "true", "false"},
     ct \in {"auto", "my-content", "image/png"},
     ce \in {"auto", "", "my-encoding"}}

\* a vector tile whose first byte is 0x28, and payloads that only start like
\* an image
VTile28 == <<40, 8>>

HalfJpg == <<255, 216, 8>>

HalfPng == <<137, 80, 78, 71, 13, 10, 26, 8>>

FormatProbeTiles ==
  FormatTiles
  \cup {VTile28, Gzip(VTile28), Gzip(PngTile), Gzip(OtherTile), HalfJpg, HalfPng}

FormatProbeAnswers ==
  {<<<<Col(t)>>>> : t \in FormatProbeTiles}
  \cup {<<<<Col(t), Col(HexKey)>>>> : t \in FormatProbeTiles}

FormatRows ==
  {<<<<Col(t)>>>> : t \in FormatTiles}
  \cup {<<<<Col(t), k>>>> : t \in FormatTiles, k \in {Col(HexKey), Null}}

InitFormat == \E c \in FormatConfigs : InitWith(c)

NextFormat ==
  \/ StartProbe
  \/ \E e \in 1..MaxEndpoints : \E rows \in FormatProbeAnswers : ProbeRows(e, rows)
  \/ calls = <<>> /\ GetTile(0, 0, 0)
  \/ \E rows \in FormatRows : QueryRows(1, rows)
  \/ Callback(1)

SpecFormat == InitFormat /\ [][NextFormat]_vars

(***************************************************************************)
(* The startup probe alone: up to MaxEndpoints endpoints, each answering   *)
(* the test query with any shape of result, or failing.                    *)
(***************************************************************************)
HexKey2 == <<1, 8, 3, 7, 2, 4, 3, 2, 11, 7>>

\* nine and fifty-one hexadecimal digits
ShortKey == [i \in 1..9 |-> 10]

LongKey == [i \in 1..51 |-> 10]

ProbeConfigs ==
  {Params(0, MaxZoom, [i \in 1..n |-> 1], Undefined, k, "auto", "auto", "auto", t) :
     n \in 1..MaxEndpoints, k \in {"auto", "true", "false"},
     t \in {TestAt(<<0, 0, 0>>), TestUndefined}}

ProbeShapes ==
  {<<>>, <<<<Col(VTile)>>, <<Col(VTile)>>>>, <<<<>>>>,
   <<<<Col(VTile), Col(HexKey), Col(HexKey)>>>>,
   <<<<Null>>>>, <<<<Col(<<>>)>>>>, <<<<Col(<<>>), Col(HexKey)>>>>,
   <<<<Col(VTile)>>>>, <<<<Col(JpgTile)>>>>}
  \cup {<<<<Col(VTile), k>>>> :
          k \in {Col(HexKey), Col(HexKey2), Col(NotHexKey), Col(ShortKey),
                 Col(LongKey), Null}}
  \cup {<<<<Col(JpgTile), Col(HexKey)>>>>}

InitProbe == \E c \in ProbeConfigs : InitWith(c)

NextProbe ==
  \/ StartProbe
  \/ \E e \in 1..MaxEndpoints : ProbeFail(e)
  \/ \E e \in 1..MaxEndpoints : \E rows \in ProbeShapes : ProbeRows(e, rows)

SpecProbe == InitProbe /\ [][NextProbe]_vars

(***************************************************************************)
(* The parameters as they come from the URL: undefined or a string, a      *)
(* string being the sequence of its characters.  toBool, the nogzip        *)
(* handling of init, and the split / parseInt of parseTestOnStartup.       *)
(***************************************************************************)
JsUndefined == [def |-> FALSE, s |-> <<>>]

Str(s) == [def |-> TRUE, s |-> s]

\* String.prototype.toLowerCase, on the letters the parameters are made of
LowerChar(ch) ==
  CASE ch = "A" -> "a" [] ch = "E" -> "e" [] ch = "F" -> "f" [] ch = "L" -> "l"
    [] ch = "O" -> "o" [] ch = "R" -> "r" [] ch = "S" -> "s" [] ch = "T" -> "t"
    [] ch = "U" -> "u" [] OTHER -> ch

toLowerCase(s) == [i \in 1..Len(s) |-> LowerChar(s[i])]

\* toBool(value, allowAuto): 'auto', true or false
toBool(value, allowAuto) ==
  IF ~value.def \/ value.s = <<>>
  THEN IF allowAuto /\ ~value.def THEN "auto" ELSE "false"
  ELSE LET v == toLowerCase(value.s)
       IN IF allowAuto
          THEN IF v = <<>> \/ v = <<"a", "u", "t", "o">> THEN "auto"
               ELSE BoolStr(v # <<"0">> /\ v # <<"f", "a", "l", "s", "e">>)
          ELSE BoolStr(v # <<>> /\ v # <<"0">>
                       /\ v # <<"f", "a", "l", "s", "e">>)

\* init: this.paramGzip after the legacy nogzip parameter has been handled
ParamGzip(gzipRaw, nogzipRaw) ==
  LET paramGzip == toBool(gzipRaw, TRUE)
      noGzip == toBool(nogzipRaw, TRUE)
  IN IF noGzip # "auto"
     THEN IF paramGzip # "auto" THEN BoolStr(noGzip = "false") ELSE paramGzip
     ELSE paramGzip

\* String.prototype.split on a one-character separator
RECURSIVE SplitLoop(_, _, _, _, _)
SplitLoop(s, sep, i, cur, acc) ==
  IF i > Len(s) THEN Append(acc, cur)
  ELSE IF s[i] = sep THEN SplitLoop(s, sep, i + 1, <<>>, Append(acc, cur))
  ELSE SplitLoop(s, sep, i + 1, Append(cur, s[i]), acc)

Split(s, sep) == SplitLoop(s, sep, 1, <<>>, <<>>)

DigitChars == <<"0", "1", "2", "3", "4", "5", "6", "7", "8", "9">>

IsDigit(ch) == \E d \in 1..10 : DigitChars[d] = ch

DigitValue(ch) == (CHOOSE d \in 1..10 : DigitChars[d] = ch) - 1

\* the digits at the start of s from position i on
RECURSIVE DigitsLoop(_, _, _, _)
DigitsLoop(s, i, n, seen) ==
  IF i <= Len(s) /\ IsDigit(s[i])
  THEN DigitsLoop(s, i + 1, 10 * n + DigitValue(s[i]), TRUE)
  ELSE [n |-> n, seen |-> seen]

\* parseInt(v, 10): an optional sign and the longest run of digits after it;
\* NaN when there is no digit
parseInt(s) ==
  LET neg == Len(s) >= 1 /\ s[1] = "-"
      r == DigitsLoop(s, IF neg THEN 2 ELSE 1, 0, FALSE)
  IN IF ~r.seen THEN "NaN" ELSE IF neg THEN -r.n ELSE r.n

\* variant: the string is split on '/' only
TestPartsSlashOnly(s) == Split(s, "/")

\* parseTestOnStartup: the parts of the string, split on '/' or else on ','
TestParts(s) ==
  LET parts == Split(s, "/")
  IN IF Len(parts) = 1 THEN Split(s, ",") ELSE parts

\* the testOnStartup parameter: what toBool and the split make of it (the
\* parts go through parseInt when there are three of them), and the string
TestParam(raw) ==
  LET parts == TestParts(raw.s)
  IN [kind |-> IF ~raw.def THEN "undefined"
               ELSE IF toBool(raw, FALSE) = "false" THEN "false" ELSE "parts",
      parts |-> IF ~raw.def \/ toBool(raw, FALSE) = "false" THEN <<>>
                ELSE IF Len(parts) = 3
                THEN <<parseInt(parts[1]), parseInt(parts[2]),
                       parseInt(parts[3])>>
                ELSE [i \in 1..Len(parts) |-> 0],
      raw |-> raw]

(***************************************************************************)
(* Probing disabled: every setting of key and gzip, then one fetch whose   *)
(* row has one or two columns.                                             *)
(***************************************************************************)
NoProbeConfigs ==
  {Params(0, MaxZoom, mp, eae, k, gz, "auto", "auto", TestOff) :
     mp \in {<<1>>, <<1, 2>>}, eae \in {Undefined, "true"},
     k \in {"auto", "true", "false"}, gz \in {"auto", "true", "false"}}

NoProbeRows ==
  {<<>>, <<<<Col(VTile)>>>>, <<<<Col(VTile), Col(HexKey)>>>>,
   <<<<Col(Gzip(VTile))>>>>}

InitNoProbeSpec == \E c \in NoProbeConfigs : InitWith(c)

NextNoProbe ==
  \/ InitNoProbe
  \/ calls = <<>> /\ GetTile(0, 0, 0)
  \/ QueryFail(1)
  \/ \E rows \in NoProbeRows : QueryRows(1, rows)
  \/ Callback(1)

SpecNoProbe == InitNoProbeSpec /\ [][NextNoProbe]_vars

(***************************************************************************)
(* The testOnStartup parameter: not given, or any of a set of strings,     *)
(* under zoom ranges around the bound and around the default test tile.    *)
(***************************************************************************)
RECURSIVE NatChars(_)
NatChars(n) ==
  IF n < 10 THEN <<DigitChars[n + 1]>>
  ELSE NatChars(n \div 10) \o <<DigitChars[(n % 10) + 1]>>

IntChars(n) == IF n < 0 THEN <<"-">> \o NatChars(-n) ELSE NatChars(n)

\* the string 'z/x/y' or 'z,x,y'
Triple(z, x, y, sep) ==
  IntChars(z) \o <<sep>> \o IntChars(x) \o <<sep>> \o IntChars(y)

Triples ==
  ((-1..(MaxZoom + 1)) \X (-1..(2 ^ MaxZoom)) \X (-1..(2 ^ MaxZoom)))
  \cup {<<14, 9268, 3575>>, <<10, 579, 223>>}

OffStrings ==
  {<<>>, <<"0">>, <<"f", "a", "l", "s", "e">>, <<"F", "A", "L", "S", "E">>}

TestStrings ==
  {Triple(t[1], t[2], t[3], sep) : t \in Triples, sep \in {"/", ","}}
  \cup OffStrings
  \cup {<<"1">>, <<"t", "r", "u", "e">>, <<"a", "u", "t", "o">>,
        <<"0", "/", "0">>, <<"0", ",", "0">>,
        <<"0", "/", "0", "/", "0", "/", "0">>,
        <<"0", ",", "0", ",", "0", ",", "0">>,
        <<"0", "/", "0", ",", "0">>, <<"0", ",", "0", "/", "0">>,
        <<"0", "x", "/", "0", "/", "0">>}

ParseZoomRanges == ZoomRanges \cup {<<0, 14>>, <<0, 10>>, <<15, 16>>}

ParseConfigs ==
  {Params(zr[1], zr[2], <<1>>, Undefined, "false", "false", "auto", "auto",
          TestParam(raw)) :
     zr \in ParseZoomRanges,
     raw \in {JsUndefined} \cup {Str(s) : s \in TestStrings}}

InitParse == \E c \in ParseConfigs : InitWith(c)

NextParse ==
  \/ InitBadTestTile
  \/ InitNoProbe
  \/ StartProbe
  \/ \E rows \in {<<>>, <<<<Col(VTile)>>>>} : ProbeRows(1, rows)

SpecParse == InitParse /\ [][NextParse]_vars

(***************************************************************************)
(* The gzip and nogzip parameters as strings, with and without the probe,  *)
(* then one fetch.                                                         *)
(***************************************************************************)
BoolParams ==
  {JsUndefined, Str(<<>>), Str(<<"a", "u", "t", "o">>), Str(<<"1">>),
   Str(<<"t", "r", "u", "e">>), Str(<<"0">>), Str(<<"f", "a", "l", "s", "e">>)}

GzipConfigs ==
  {[minzoom |-> 0, maxzoom |-> MaxZoom, maxpool |-> <<1>>,
    errorsAsEmpty |-> Undefined, key |-> "false", gzip |-> ParamGzip(g, ng),
    contentType |-> "auto", contentEncoding |-> "auto", testOnStartup |-> t,
    rawGzip |-> g, rawNogzip |-> ng] :
     g \in BoolParams, ng \in BoolParams \ {Str(<<>>)},
     t \in {TestOff, TestAt(<<0, 0, 0>>)}}

GzipRows == {<<<<Col(VTile)>>>>, <<<<Col(Gzip(VTile))>>>>}

InitGzip == \E c \in GzipConfigs : InitWith(c)

NextGzip ==
  \/ InitNoProbe
  \/ StartProbe
  \/ \E rows \in GzipRows : ProbeRows(1, rows)
  \/ calls = <<>> /\ GetTile(0, 0, 0)
  \/ \E rows \in GzipRows : QueryRows(1, rows)
  \/ Callback(1)

SpecGzip == InitGzip /\ [][NextGzip]_vars

(***************************************************************************)
(* The maxpool parameter as it comes out of the URL: not given, or one     *)
(* string per occurrence of maxpool=..., through checkMultiValue.          *)
(***************************************************************************)
ErrMultiValue == "Parameter maxpool has invalid value"

ErrMultiCount == "You must provide as many maxpool values as there are hosts"

\* /^\d{1,5}$/.test(s)
IsPoolNumber(s) == Len(s) \in 1..5 /\ \A i \in 1..Len(s) : IsDigit(s[i])

\* checkMultiValue(params, 'maxpool', 10) with `hosts` hosts; raw is the list
\* of strings given, JsUndefined when the parameter is absent
checkMultiValue(raw, hosts) ==
  LET given == IF raw.def THEN raw.s ELSE <<<<"1", "0">>>>
      value == IF ~raw.def \/ (Len(given) # hosts /\ Len(given) = 1)
               THEN [i \in 1..hosts |-> given[1]]
               ELSE given
  IN IF Len(value) # hosts THEN [err |-> ErrMultiCount, value |-> <<>>]
     ELSE IF \E i \in 1..hosts : value[i] = <<>> \/ ~IsPoolNumber(value[i])
     THEN [err |-> ErrMultiValue, value |-> <<>>]
     ELSE [err |-> "", value |-> [i \in 1..hosts |-> parseInt(value[i])]]

PoolStrings ==
  {<<"0">>, <<"1">>, <<"2">>, <<"0", "0">>, <<"0", "2">>, <<>>, <<"-", "1">>,
   <<"1", "a">>, <<"1", "2", "3", "4", "5", "6">>}

RawMaxpools ==
  {JsUndefined} \cup {Str(<<a>>) : a \in PoolStrings}
    \cup {Str(<<a, b>>) : a, b \in {<<"0">>, <<"1">>, <<"2">>}}

MaxpoolConfigs ==
  {[minzoom |-> 0, maxzoom |-> MaxZoom, maxpool |-> checkMultiValue(raw, h).value,
    errorsAsEmpty |-> Undefined, key |-> "auto", gzip |-> "auto",
    contentType |-> "auto", contentEncoding |-> "auto",
    testOnStartup |-> TestAt(<<0, 0, 0>>), rawMaxpool |-> raw, hosts |-> h] :
     raw \in RawMaxpools, h \in 1..2}

\* init throws in checkMultiValue, before the pools are made
InitRefused(c) ==
  /\ cfg = c
  /\ phase = "failed"
  /\ initError = checkMultiValue(c.rawMaxpool, c.hosts).err
  /\ maxCoords = <<>>
  /\ pgpools = <<>>
  /\ errorsAsEmpty = Undefined
  /\ useKeyColumn = Undefined
  /\ gzip = Undefined
  /\ headers = NoHeaders
  /\ probes = <<>>
  /\ calls = <<>>
  /\ sent = <<>>
  /\ shutdowns = <<>>

InitMaxpool ==
  \E c \in MaxpoolConfigs :
    IF checkMultiValue(c.rawMaxpool, c.hosts).err = ""
    THEN InitWith(c)
    ELSE InitRefused(c)

NextMaxpool ==
  \/ StartProbe
  \/ \E e \in 1..MaxEndpoints : ProbeRows(e, <<<<Col(VTile)>>>>)
  \/ Len(calls) < MaxCalls /\ GetTile(0, 0, 0)
  \/ \E c \in 1..MaxCalls : QueryRows(c, <<<<Col(VTile)>>>>)
  \/ \E c \in 1..MaxCalls : Callback(c)

SpecMaxpool == InitMaxpool /\ [][NextMaxpool]_vars

(***************************************************************************)
(* Properties                                                              *)
(***************************************************************************)
\* the call a getTile step has just added
IsDispatch == Len(calls') = Len(calls) + 1

NewCall == calls'[Len(calls')]

AllPositive == \A i \in Endpoints : cfg.maxpool[i] > 0

\* multiplier * pending of endpoint e, as the selection loop computes it
Product(e) == Times(pgpools[e].multiplier, pgpools[e].pending)

\* C1: the endpoint a getTile call selects has a minimal multiplier * pending
\* at the moment of selection: no endpoint has a smaller product, its product
\* is <= every other one whenever the products are numbers (every maxpool
\* positive), and no endpoint before it in the configured order has a product
\* as small.
C1_PickMinimal ==
  [][IsDispatch =>
       /\ NewCall.pool \in Endpoints
       /\ \A j \in Endpoints : ~Less(Product(j), Product(NewCall.pool))
       /\ AllPositive =>
            \A j \in Endpoints : Leq(Product(NewCall.pool), Product(j))
       /\ \A j \in 1..(NewCall.pool - 1) :
            ~Leq(Product(j), Product(NewCall.pool))]_vars

\* three calls in flight on two endpoints of different weight: the first took
\* the tie, the next two went to the endpoint with the smaller product
C1_Witness ==
  /\ cfg.maxpool = <<1, 2>>
  /\ Len(calls) = 3
  /\ calls[1].pool = 1 /\ calls[2].pool = 2 /\ calls[3].pool = 2
  /\ \A c \in 1..3 : calls[c].pc = "querying"

\* the queries handed to endpoint e that have not settled
InFlight(e) ==
  Cardinality({c \in 1..Len(calls) : calls[c].pc = "querying" /\ calls[c].pool = e})
  + (IF probes[e].pc = "querying" THEN 1 ELSE 0)

\* C2: in every reachable state each endpoint's pending equals the number of
\* queries issued to it (by getTile calls and by the startup probe) that have
\* not settled; it is 0 after construction and never negative.
C2_PendingIsInFlight ==
  \A e \in Endpoints :
    /\ pgpools[e].pending = InFlight(e)
    /\ pgpools[e].pending >= 0
    /\ phase = "created" => pgpools[e].pending = 0

\* two queries in flight on one endpoint after an earlier query failed and
\* its error was delivered
C2_Witness ==
  /\ \E e \in Endpoints : pgpools[e].pending = 2
  /\ \E c \in 1..Len(calls) :
       calls[c].pc = "done" /\ calls[c].ans.kind = "fail"

\* the queries of endpoint e that settle in a step, and those issued in it
Released(e) ==
  Cardinality({c \in 1..Len(calls) :
                 /\ calls[c].pool = e
                 /\ calls[c].pc = "querying" /\ calls'[c].pc # "querying"})
  + (IF probes[e].pc = "querying" /\ probes'[e].pc # "querying" THEN 1 ELSE 0)

Issued(e) ==
  (IF IsDispatch /\ NewCall.pc = "querying" /\ NewCall.pool = e THEN 1 ELSE 0)
  + (IF probes[e].pc = "idle" /\ probes'[e].pc = "querying" THEN 1 ELSE 0)

\* C3: every query issued by a getTile call or by the startup probe releases
\* its endpoint's pending slot exactly once when it settles, whether rows came
\* back, the query failed, or the failure was downgraded by errorsAsEmpty (a
\* settled query never settles again); pending is 0 on every endpoint right
\* after a successful startup probe; and when every issued query settles,
\* every endpoint's pending eventually returns to 0 and stays there.
C3_ReleaseOnce ==
  /\ [][\A e \in Endpoints :
          pgpools'[e].pending = pgpools[e].pending + Issued(e) - Released(e)]_vars
  /\ [][\A c \in 1..Len(calls) :
          calls[c].pc # "querying" => calls'[c].pc # "querying"]_vars
  /\ [][phase # "ready" /\ phase' = "ready" =>
          \A e \in Endpoints : pgpools'[e].pending = 0]_vars
  /\ <>[](\A e \in Endpoints : pgpools[e].pending = 0)

\* after a successful probe of two endpoints: one call got rows, one call's
\* query failed and was downgraded to the not-found error, nothing is pending
C3_Witness ==
  /\ phase = "ready" /\ N = 2
  /\ \A e \in Endpoints : probes[e].pc = "ok" /\ pgpools[e].pending = 0
  /\ \E c, d \in 1..Len(calls) :
       /\ calls[c].ans.kind = "rows" /\ calls[c].pc = "done"
       /\ calls[d].ans.kind = "fail" /\ calls[d].res = Err(tileDoesNotExist)


\* |a - b| on doubles
AbsDiff(a, b) ==
  IF a.k = "nan" \/ b.k = "nan" \/ (a.k = "inf" /\ b.k = "inf")
  THEN [k |-> "nan", num |-> 0, den |-> 0]
  ELSE IF a.k = "inf" \/ b.k = "inf" THEN [k |-> "inf", num |-> 1, den |-> 0]
  ELSE LET d == a.num * b.den - b.num * a.den
       IN [k |-> "fin", num |-> IF d < 0 THEN -d ELSE d, den |-> a.den * b.den]

\* the smallest configured maxpool
MinMaxpool ==
  CHOOSE m \in {cfg.maxpool[i] : i \in Endpoints} :
    \A i \in Endpoints : m <= cfg.maxpool[i]

\* C4: with every pending at 0 at the start and dispatches issued one after
\* the other with no completion in between, in every reached state and for
\* any two endpoints i and j the products multiplier * pending differ by no
\* more than the largest multiplier (some multiplier is not smaller than the
\* difference); in whole numbers, pending_i / maxpool_i and
\* pending_j / maxpool_j differ by no more than 1 / min(maxpool).
C4_Proportional ==
  \A i, j \in Endpoints :
    /\ \E k \in Endpoints :
         ~Less(Times(pgpools[k].multiplier, 1), AbsDiff(Product(i), Product(j)))
    /\ LET d == pgpools[i].pending * cfg.maxpool[j]
                - pgpools[j].pending * cfg.maxpool[i]
       IN (IF d < 0 THEN -d ELSE d) * MinMaxpool
            <= cfg.maxpool[i] * cfg.maxpool[j]

\* four dispatches on endpoints of capacity 1 and 3: one and three in flight,
\* the counts are proportional, not equal
C4_Witness ==
  /\ cfg.maxpool = <<1, 3>>
  /\ Len(calls) = 4
  /\ pgpools[1].pending = 1 /\ pgpools[2].pending = 3

\* what a call was asked for
ZoomInRange(c) == calls[c].z >= cfg.minzoom /\ calls[c].z <= cfg.maxzoom

XYInRange(c) ==
  /\ calls[c].x >= 0 /\ calls[c].x < 2 ^ calls[c].z
  /\ calls[c].y >= 0 /\ calls[c].y < 2 ^ calls[c].z

\* the callback of a call has been handed exactly this result
Delivered(c, r) == calls[c].pc \in {"settled", "done"} /\ calls[c].res = r

\* C5: a getTile call for (z,x,y) with z < minzoom or z > maxzoom ends with
\* the not-found error 'Tile does not exist' and never with a tile, whatever
\* x and y are.
C5_ZoomOutOfRange ==
  \A c \in 1..Len(calls) :
    ~ZoomInRange(c) => Delivered(c, Err(tileDoesNotExist))

\* a call below minzoom, with x and y that would be valid, got its error
C5_Witness ==
  /\ cfg.minzoom = 1
  /\ Len(calls) = 1
  /\ calls[1].z = 0 /\ calls[1].x = 0 /\ calls[1].y = 0
  /\ calls[1].pc = "done" /\ calls[1].res = Err(tileDoesNotExist)

C7_NoQueryWhenInvalid ==
  [][IsDispatch /\ ~(/\ NewCall.z >= cfg.minzoom /\ NewCall.z <= cfg.maxzoom
                      /\ NewCall.x >= 0 /\ NewCall.x < 2 ^ NewCall.z
                      /\ NewCall.y >= 0 /\ NewCall.y < 2 ^ NewCall.z) =>
       /\ NewCall.pc # "querying"
       /\ sent' = sent
       /\ \A e \in Endpoints : pgpools'[e].pending = pgpools[e].pending]_vars

\* after the probe of two endpoints a call for a valid tile is in flight; a
\* call with x out of range and a call with the zoom out of range came after
\* it: one slot is taken, three queries were sent (two of them by the probe)
C7_Witness ==
  /\ N = 2 /\ Len(calls) = 3
  /\ calls[1].pc = "querying"
  /\ ZoomInRange(2) /\ ~XYInRange(2) /\ calls[2].pc = "settled"
  /\ ~ZoomInRange(3) /\ calls[3].pc = "settled"
  /\ pgpools[1].pending + pgpools[2].pending = 1
  /\ sent[1] + sent[2] = 3

\* C8: maxCoords has exactly maxzoom + 1 entries, 2^z for
\* minzoom <= z <= maxzoom and 0 for z < minzoom, and validateXY(z, x, y) is
\* true iff 0 <= z <= maxzoom, 0 <= x < maxCoords[z] and 0 <= y < maxCoords[z]:
\* iff minzoom <= z <= maxzoom and x and y lie in [0, 2^z), so it is false
\* for every z outside [minzoom, maxzoom].
C8_MaxCoords ==
  /\ Len(maxCoords) = cfg.maxzoom + 1
  /\ \A z \in 0..cfg.maxzoom :
       maxCoords[z + 1] = IF z >= cfg.minzoom THEN 2 ^ z ELSE 0
  /\ \A t \in FetchCoords :
       LET z == t[1]
           x == t[2]
           y == t[3]
       IN /\ validateXY(maxCoords, z, x, y) <=>
               /\ 0 <= z /\ z <= cfg.maxzoom
               /\ 0 <= x /\ x < maxCoords[z + 1]
               /\ 0 <= y /\ y < maxCoords[z + 1]
          /\ validateXY(maxCoords, z, x, y) <=>
               /\ cfg.minzoom <= z /\ z <= cfg.maxzoom
               /\ 0 <= x /\ x < 2 ^ z
               /\ 0 <= y /\ y < 2 ^ z

\* minzoom = maxzoom = 1: the entry of zoom 0 is 0, and the tile (1,1,1),
\* the last of its zoom, passed validateXY and is being queried
C8_Witness ==
  /\ cfg.minzoom = 1 /\ maxCoords = <<0, 2>>
  /\ Len(calls) = 1
  /\ calls[1].z = 1 /\ calls[1].x = 1 /\ calls[1].y = 1
  /\ calls[1].pc = "querying"

\* C9: for a valid coordinate whose query succeeds, zero rows yield the
\* not-found error and more than one row yields the error 'Expected just one
\* row ...', which is not the not-found error, and never a tile.
C9_RowCount ==
  \A c \in 1..Len(calls) :
    calls[c].ans.kind = "rows" =>
      /\ Len(calls[c].ans.rows) = 0 => Delivered(c, Err(tileDoesNotExist))
      /\ Len(calls[c].ans.rows) > 1 =>
           /\ Delivered(c, Err(ErrRows))
           /\ calls[c].res.msg # tileDoesNotExist

\* the query returned two rows, each a good tile, and the caller got the
\* row-count error
C9_Witness ==
  /\ Len(calls) = 1
  /\ calls[1].ans = Answer(<<<<Col(VTile)>>, <<Col(VTile)>>>>)
  /\ calls[1].pc = "done" /\ calls[1].res = Err(ErrRows)

\* C10: for a single-row result the call succeeds only if the row has
\* exactly 1 column when useKeyColumn is not true and exactly 2 columns when
\* it is true; any other column count yields the error 'Expected ... columns'.
C10_ColumnCount ==
  \A c \in 1..Len(calls) :
    calls[c].ans.kind = "rows" /\ Len(calls[c].ans.rows) = 1 =>
      LET n == Len(calls[c].ans.rows[1])
          expected == IF useKeyColumn = "true" THEN 2 ELSE 1
      IN /\ calls[c].res.kind = "tile" => n = expected
         /\ n # expected => Delivered(c, Err(ErrColumns))

\* the probe found a key column; a later query returned a single column
\* holding a good tile and the caller got the column-count error
C10_Witness ==
  /\ useKeyColumn = "true"
  /\ Len(calls) = 1
  /\ calls[1].ans = Answer(<<<<Col(VTile)>>>>)
  /\ calls[1].pc = "done" /\ calls[1].res = Err(ErrColumns)

\* the query of call c returned exactly one row with the expected columns
RightShape(c) ==
  /\ calls[c].ans.kind = "rows"
  /\ Len(calls[c].ans.rows) = 1
  /\ Len(calls[c].ans.rows[1]) = (IF useKeyColumn = "true" THEN 2 ELSE 1)

\* C11: a single row of the right shape whose first column is null or
\* zero-length yields the not-found error, the same as zero rows; a result
\* delivered as a tile comes from a non-empty first column and is never
\* empty.
C11_EmptyPayload ==
  \A c \in 1..Len(calls) :
    /\ RightShape(c) /\ (calls[c].ans.rows[1][1].isnull
                         \/ calls[c].ans.rows[1][1].bytes = <<>>) =>
         Delivered(c, Err(tileDoesNotExist))
    /\ calls[c].res.kind = "tile" =>
         /\ RightShape(c)
         /\ calls[c].ans.rows[1][1].bytes # <<>>
         /\ calls[c].res.bytes # <<>>

\* the probe found a key column; a later row of two columns held a
\* zero-length value and its key, and the caller got not-found
C11_Witness ==
  /\ useKeyColumn = "true"
  /\ Len(calls) = 1
  /\ calls[1].ans = Answer(<<<<Col(<<>>), Col(HexKey)>>>>)
  /\ calls[1].pc = "done" /\ calls[1].res = Err(tileDoesNotExist)

\* the bytes the backend delivered to a call that ended with a tile
Backend(c) == calls[c].ans.rows[1][1].bytes

\* the conclusion of C12 for call c: already-gzipped backend bytes come back
\* unchanged; uncompressed ones, when compression is on, come back as gzip
\* data that gunzips to exactly the backend bytes
AtMostOnce(c) ==
  /\ IsGzip(Backend(c)) => calls[c].res.bytes = Backend(c)
  /\ ~IsGzip(Backend(c)) /\ gzip = "true" =>
       /\ IsGzip(calls[c].res.bytes)
       /\ Gunzip(calls[c].res.bytes) = Backend(c)

\* C12 as stated: for every configuration (gzip auto, true or false) that
\* initializes successfully with probing, the payload of a successful fetch
\* is gzip-compressed at most once.
C12_Original ==
  \A c \in 1..Len(calls) : calls[c].res.kind = "tile" => AtMostOnce(c)

\* C12: after a successful probe, with gzip false the payload is the backend
\* bytes unchanged; with gzip auto a payload that is gzip data exactly when
\* the probe payload was is compressed at most once (unchanged when already
\* gzipped, gunzipping once to the backend bytes when compression is on);
\* with gzip true every payload is compressed, so that gunzipping the result
\* once yields the backend bytes, gzip data or not.
C12_CompressedAsProbed ==
  \A c \in 1..Len(calls) :
    calls[c].res.kind = "tile" =>
      /\ cfg.gzip = "false" => calls[c].res.bytes = Backend(c)
      /\ cfg.gzip = "auto"
           /\ (IsGzip(Backend(c)) <=> probes[1].status.isGziped) => AtMostOnce(c)
      /\ cfg.gzip = "true" =>
           /\ IsGzip(calls[c].res.bytes)
           /\ Gunzip(calls[c].res.bytes) = Backend(c)

\* gzip auto, two endpoints whose probe payload was a gzipped vector tile:
\* a fetch got the gzipped tile from the backend and returned it unchanged
C12_Witness ==
  /\ cfg.gzip = "auto" /\ N = 2 /\ phase = "ready"
  /\ probes[1].status.isGziped
  /\ Len(calls) = 1 /\ calls[1].pc = "done"
  /\ Backend(1) = Gzip(VTile)
  /\ calls[1].res.kind = "tile" /\ calls[1].res.bytes = Gzip(VTile)

\* C13: when useKeyColumn is true every successful fetch returns a payload
\* whose key is the row's second column and whose bytes are those returned
\* without a key (the compressed bytes if compression is on, else the backend
\* bytes); when it is not, the payload carries no key.
C13_Key ==
  \A c \in 1..Len(calls) :
    calls[c].res.kind = "tile" =>
      /\ calls[c].res.bytes = IF gzip = "true" THEN Gzip(Backend(c))
                                                ELSE Backend(c)
      /\ useKeyColumn = "true" =>
           /\ calls[c].res.key.def
           /\ calls[c].res.key.isnull = calls[c].ans.rows[1][2].isnull
           /\ calls[c].res.key.bytes = calls[c].ans.rows[1][2].bytes
      /\ useKeyColumn # "true" => ~calls[c].res.key.def

\* key column negotiated and compression on: the caller got the gzipped
\* vector tile with the key of the row attached
C13_Witness ==
  /\ useKeyColumn = "true" /\ gzip = "true"
  /\ Len(calls) = 1 /\ calls[1].pc = "done"
  /\ calls[1].ans = Answer(<<<<Col(VTile), Col(HexKey)>>>>)
  /\ calls[1].res.bytes = Gzip(VTile)
  /\ calls[1].res.key = KeyOf(Col(HexKey))

\* C14: when the query of a getTile call fails, the caller receives the
\* not-found error 'Tile does not exist' if errorsAsEmpty is configured, and
\* the upstream error itself if it is not.
C14_ErrorsAsEmpty ==
  \A c \in 1..Len(calls) :
    calls[c].ans.kind = "fail" =>
      Delivered(c, IF cfg.errorsAsEmpty = "true" THEN Err(tileDoesNotExist)
                                                 ELSE Err(ErrUpstream))

\* errorsAsEmpty configured: the query failed and the caller got not-found
C14_Witness ==
  /\ cfg.errorsAsEmpty = "true"
  /\ Len(calls) = 1
  /\ calls[1].ans = Failed
  /\ calls[1].pc = "done" /\ calls[1].res = Err(tileDoesNotExist)

\* C15: the shape errors of a getTile call (more than one row, wrong column
\* count) reach the caller as they are whether or not errorsAsEmpty is
\* configured: they are never turned into not-found.
C15_ShapeErrorsKept ==
  \A c \in 1..Len(calls) :
    calls[c].ans.kind = "rows" /\ calls[c].res.kind = "error" =>
      /\ Len(calls[c].ans.rows) > 1 => calls[c].res = Err(ErrRows)
      /\ Len(calls[c].ans.rows) = 1 /\ ~RightShape(c) =>
           calls[c].res = Err(ErrColumns)
      /\ calls[c].res.msg = tileDoesNotExist =>
           \/ Len(calls[c].ans.rows) = 0
           \/ RightShape(c)

\* errorsAsEmpty configured and in force: a row of three columns ended with
\* the column-count error
C15_Witness ==
  /\ cfg.errorsAsEmpty = "true" /\ errorsAsEmpty = "true"
  /\ Len(calls) = 1
  /\ calls[1].ans = Answer(<<<<Col(VTile), Col(HexKey), Col(HexKey)>>>>)
  /\ calls[1].pc = "done" /\ calls[1].res = Err(ErrColumns)

\* the calls that went past validation on endpoint e
Queried(e) ==
  {c \in 1..Len(calls) :
     calls[c].pool = e /\ (calls[c].pc = "querying" \/ calls[c].ans.kind # "none")}

\* C16: each getTile call issues at most one query, to the endpoint selected
\* at call time (the queries sent to an endpoint are those of its probe and
\* one per call that passed validation on it); when that query fails no
\* query is sent anywhere, the call keeps its endpoint and ends there with
\* the failure, or with not-found under errorsAsEmpty.
C16_NoRetry ==
  /\ [](\A e \in Endpoints :
          sent[e] = Cardinality(Queried(e))
                    + (IF probes[e].pc = "querying"
                          \/ probes[e].ans.kind # "none" THEN 1 ELSE 0))
  /\ [][\A c \in 1..Len(calls) :
          /\ calls'[c].pool = calls[c].pool
          /\ calls[c].pc = "querying" /\ calls'[c].ans.kind # "rows" =>
               \/ calls'[c] = calls[c]
               \/ /\ sent' = sent
                  /\ calls'[c].ans = Failed
                  /\ calls'[c].pc = "settled"
                  /\ calls'[c].res = IF cfg.errorsAsEmpty = "true"
                                     THEN Err(tileDoesNotExist)
                                     ELSE Err(ErrUpstream)]_vars

\* two endpoints, no probe: the only call failed on the first endpoint and
\* its caller got the outcome; one query went out, none to the second
C16_Witness ==
  /\ N = 2 /\ cfg.testOnStartup = TestOff
  /\ Len(calls) = 1 /\ calls[1].pool = 1
  /\ calls[1].ans = Failed /\ calls[1].pc = "done"
  /\ sent = <<1, 0>>

\* the single row the probe of endpoint e got, when it got rows
ProbeRow(e) == probes[e].ans.rows[1]

\* every endpoint's probe passed the checks of _testSingleServer
AllProbed == \A e \in Endpoints : probes[e].pc = "ok"

\* endpoint e delivered what the first endpoint delivered: the same payload
\* and the same key, or no key either
SameAsFirst(e) ==
  /\ ProbeRow(e)[1].bytes = ProbeRow(1)[1].bytes
  /\ Len(ProbeRow(e)) = Len(ProbeRow(1))
  /\ Len(ProbeRow(1)) = 2 => ProbeRow(e)[2].bytes = ProbeRow(1)[2].bytes

\* C17: with two or more endpoints, init succeeds only if every endpoint's
\* probe payload is byte for byte the first endpoint's and every endpoint's
\* key (also its presence or absence) is the first endpoint's; once every
\* probe has passed on its own, a mismatch makes init fail with the data or
\* hash mismatch error.
C17_ProbesAgree ==
  /\ phase = "ready" => AllProbed /\ \A e \in Endpoints : SameAsFirst(e)
  /\ AllProbed /\ (\E e \in Endpoints : ~SameAsFirst(e)) =>
       /\ phase = "failed"
       /\ initError \in {ErrDataMismatch, ErrHashMismatch}

\* three endpoints: the third returned the payload of the others with a
\* different key, and init failed with the hash mismatch error
C17_Witness ==
  /\ N = 3 /\ AllProbed
  /\ probes[1].ans = Answer(<<<<Col(VTile), Col(HexKey)>>>>)
  /\ probes[2].ans = probes[1].ans
  /\ probes[3].ans = Answer(<<<<Col(VTile), Col(HexKey2)>>>>)
  /\ phase = "failed" /\ initError = ErrHashMismatch

\* a string of 10 to 50 hexadecimal digits
ValidHex(col) ==
  /\ ~col.isnull
  /\ Len(col.bytes) \in 10..50
  /\ \A i \in 1..Len(col.bytes) : col.bytes[i] \in 0..15

\* C18: if the probe row of any endpoint has a second column that is not a
\* string of 10 to 50 hexadecimal digits, that probe fails and init fails
\* with an error; no key-column setting is taken from it.
C18_BadKeyFails ==
  \A e \in Endpoints :
    (/\ probes[e].ans.kind = "rows"
     /\ Len(probes[e].ans.rows) >= 1
     /\ Len(ProbeRow(e)) >= 2
     /\ ~ValidHex(ProbeRow(e)[2]))
    => /\ probes[e].pc = "failed"
       /\ phase = "failed" /\ initError # ""
       /\ useKeyColumn = Undefined

\* two endpoints: the first returned a valid key, the second nine
\* hexadecimal digits next to the same payload, and init failed on that
C18_Witness ==
  /\ N = 2
  /\ probes[1].ans = Answer(<<<<Col(VTile), Col(HexKey)>>>>)
  /\ probes[1].pc = "ok"
  /\ probes[2].ans = Answer(<<<<Col(VTile), Col(ShortKey)>>>>)
  /\ phase = "failed" /\ initError = ErrBadHash

\* exactly one row of 1 or 2 columns whose first column is not null and not
\* empty
GoodShape(rows) ==
  /\ Len(rows) = 1
  /\ Len(rows[1]) \in {1, 2}
  /\ ~rows[1][1].isnull /\ rows[1][1].bytes # <<>>

\* C19: the probe of an endpoint succeeds only if the test query returned
\* exactly one row of 1 or 2 columns with a non-null, non-empty first
\* column; zero rows, several rows, no column, more than 2 columns or an
\* empty payload make that probe and init fail.
C19_ProbeShape ==
  \A e \in Endpoints :
    /\ probes[e].pc = "ok" =>
         probes[e].ans.kind = "rows" /\ GoodShape(probes[e].ans.rows)
    /\ probes[e].ans.kind = "rows" /\ ~GoodShape(probes[e].ans.rows) =>
         /\ probes[e].pc = "failed"
         /\ phase = "failed" /\ initError # ""

\* the only endpoint returned a row of three columns, the first two of them
\* a good payload and key, and init failed with the column-count error
C19_Witness ==
  /\ N = 1
  /\ probes[1].ans = Answer(<<<<Col(VTile), Col(HexKey), Col(HexKey)>>>>)
  /\ phase = "failed" /\ initError = ErrProbeColumns

\* none of useKeyColumn, gzip, headers has been assigned
Unassigned == useKeyColumn = Undefined /\ gzip = Undefined /\ ~headers.set

\* C20: with probing enabled the constructor callback receives the instance
\* (phase ready) only when every endpoint's probe has passed, the results
\* agree and useKeyColumn, gzip and headers are written; when the probe of
\* any endpoint or the derivation fails it receives an error, and then, as
\* before the callback, none of the three is assigned; the outcome handed to
\* the callback never changes afterwards.
C20_AllOrNothing ==
  /\ [](phase = "ready" =>
          /\ AllProbed /\ \A e \in Endpoints : SameAsFirst(e)
          /\ useKeyColumn \in {"true", "false"} /\ gzip \in {"true", "false"}
          /\ headers.set
          /\ initError = "")
  /\ [](phase # "ready" => Unassigned)
  /\ [](phase = "failed" <=> initError # "")
  /\ []((\E e \in Endpoints : probes[e].pc = "failed") => phase = "failed")
  /\ [][(phase = "ready" \/ phase = "failed") =>
          (phase' = phase /\ initError' = initError)]_vars

\* key=true configured, two endpoints whose probes both passed without a
\* key column: the derivation failed, the callback got the error and
\* nothing was assigned
C20_Witness ==
  /\ N = 2 /\ cfg.key = "true" /\ AllProbed
  /\ phase = "failed" /\ initError = ErrKeyParam
  /\ Unassigned

\* the payload the first endpoint's probe returned, and the tile data in it
ProbePayload == ProbeRow(1)[1].bytes

ProbeData == IF IsGzip(ProbePayload) THEN Gunzip(ProbePayload) ELSE ProbePayload

\* the tile data of the probe carry the JPEG or the PNG signature
ProbeIsImage ==
  \/ Len(ProbeData) >= 3 /\ SubSeq(ProbeData, 1, 3) = <<255, 216, 255>>
  \/ Len(ProbeData) >= 8
       /\ SubSeq(ProbeData, 1, 8) = <<137, 80, 78, 71, 13, 10, 26, 10>>

\* C21: after a successful probe the compression flag is the gzip setting
\* when that is true or false; when it is auto the flag is on iff the probed
\* tile is not an image and the probe payload was not gzip data; a fetch
\* compresses iff the flag is on.  With key, gzip, contentType and
\* contentEncoding all auto, an uncompressed vector probe without a second
\* column gives Content-Type application/x-protobuf, no key column, the flag
\* on and Content-Encoding gzip, and a fetch returns the gzip of the backend
\* bytes.
C21_Compression ==
  phase = "ready" =>
    /\ gzip \in {"true", "false"}
    /\ cfg.gzip # "auto" => gzip = cfg.gzip
    /\ cfg.gzip = "auto" =>
         (gzip = "true" <=> ~ProbeIsImage /\ ~IsGzip(ProbePayload))
    /\ \A c \in 1..Len(calls) :
         calls[c].res.kind = "tile" =>
           calls[c].res.bytes = IF gzip = "true" THEN Gzip(Backend(c))
                                                 ELSE Backend(c)
    /\ (/\ cfg.key = "auto" /\ cfg.gzip = "auto"
        /\ cfg.contentType = "auto" /\ cfg.contentEncoding = "auto"
        /\ Len(ProbeRow(1)) = 1
        /\ ProbePayload[1] \in {26, 40})
       => /\ headers = [set |-> TRUE, ct |-> "application/x-protobuf",
                        ce |-> "gzip"]
          /\ useKeyColumn = "false"
          /\ gzip = "true"
          /\ \A c \in 1..Len(calls) :
               calls[c].res.kind = "tile" =>
                 calls[c].res.bytes = Gzip(Backend(c))

\* everything auto, the probe returned an uncompressed vector tile in one
\* column: a fetch of that tile came back gzipped, the headers say so
C21_Witness ==
  /\ cfg.key = "auto" /\ cfg.gzip = "auto"
  /\ cfg.contentType = "auto" /\ cfg.contentEncoding = "auto"
  /\ phase = "ready" /\ probes[1].ans = Answer(<<<<Col(VTile)>>>>)
  /\ gzip = "true" /\ headers.ce = "gzip"
  /\ Len(calls) = 1 /\ calls[1].pc = "done"
  /\ calls[1].ans = Answer(<<<<Col(VTile)>>>>)
  /\ calls[1].res.bytes = Gzip(VTile)

\* the probe payload is an image that was not gzipped
ImageProbed == ~IsGzip(ProbePayload) /\ ProbeIsImage

\* the key parameter does not contradict the probe row
KeyFits ==
  \/ cfg.key = "auto"
  \/ cfg.key = "true" /\ Len(ProbeRow(1)) = 2
  \/ cfg.key = "false" /\ Len(ProbeRow(1)) = 1

\* C22: with gzip auto or false, when every endpoint's probe passed with the
\* same ungzipped payload carrying the JPEG or PNG signature (and the key
\* parameter, if set, fits the row), init succeeds with one endpoint or
\* several; compression is then off and every fetched payload is byte for
\* byte the backend payload; with contentType and contentEncoding left at
\* auto the headers hold Content-Type image/jpeg or image/png, as the
\* signature says, and no Content-Encoding.
C22_Images ==
  (/\ cfg.gzip # "true" /\ AllProbed
   /\ \A e \in Endpoints : SameAsFirst(e)
   /\ ImageProbed)
  => /\ KeyFits => phase = "ready"
     /\ phase = "ready" =>
          /\ gzip = "false"
          /\ \A c \in 1..Len(calls) :
               calls[c].res.kind = "tile" => calls[c].res.bytes = Backend(c)
          /\ cfg.contentType = "auto" =>
               headers.ct = IF ProbeData[1] = 255 THEN "image/jpeg"
                                                  ELSE "image/png"
          /\ cfg.contentEncoding = "auto" => headers.ce = Undefined

\* two endpoints returned the same PNG, everything at auto: init succeeded,
\* a fetch returned the backend's PNG untouched, no Content-Encoding
C22_Witness ==
  /\ N = 2 /\ cfg.gzip = "auto" /\ cfg.key = "auto"
  /\ cfg.contentType = "auto" /\ cfg.contentEncoding = "auto"
  /\ probes[1].ans = Answer(<<<<Col(PngTile)>>>>)
  /\ probes[2].ans = probes[1].ans
  /\ phase = "ready"
  /\ headers = [set |-> TRUE, ct |-> "image/png", ce |-> Undefined]
  /\ Len(calls) = 1 /\ calls[1].pc = "done"
  /\ calls[1].ans = Answer(<<<<Col(PngTile)>>>>)
  /\ calls[1].res.bytes = PngTile

\* C23: after a successful probe, with contentEncoding auto the headers hold
\* Content-Encoding gzip iff the probe payload was gzip data or the
\* compression flag is on, and no Content-Encoding otherwise; so for every
\* fetch whose backend payload is gzip data exactly when the probe payload
\* was, the header is gzip iff the returned payload is gzip data.  With
\* contentEncoding set to a non-empty value that value is the header,
\* whatever was detected.
C23_ContentEncoding ==
  phase = "ready" =>
    /\ headers.set
    /\ cfg.contentEncoding = "auto" =>
         /\ headers.ce = IF IsGzip(ProbePayload) \/ gzip = "true"
                         THEN "gzip" ELSE Undefined
         /\ \A c \in 1..Len(calls) :
              (/\ calls[c].res.kind = "tile"
               /\ IsGzip(Backend(c)) <=> IsGzip(ProbePayload))
              => (headers.ce = "gzip" <=> IsGzip(calls[c].res.bytes))
    /\ cfg.contentEncoding \notin {"auto", ""} =>
         headers.ce = cfg.contentEncoding

\* everything auto, the backend gzips its vector tiles: the fetch returned
\* the backend bytes as they came and the header says gzip
C23_Witness ==
  /\ cfg.contentEncoding = "auto" /\ cfg.gzip = "auto"
  /\ phase = "ready" /\ gzip = "false"
  /\ probes[1].ans = Answer(<<<<Col(Gzip(VTile))>>>>)
  /\ headers.ce = "gzip"
  /\ Len(calls) = 1 /\ calls[1].pc = "done"
  /\ calls[1].ans = Answer(<<<<Col(Gzip(VTile))>>>>)
  /\ calls[1].res.bytes = Gzip(VTile)

\* the content type the signature of the probed tile data stands for
Detected ==
  IF ProbeData[1] \in {26, 40} THEN "application/x-protobuf"
  ELSE IF Len(ProbeData) >= 3 /\ SubSeq(ProbeData, 1, 3) = <<255, 216, 255>>
  THEN "image/jpeg"
  ELSE IF Len(ProbeData) >= 8
          /\ SubSeq(ProbeData, 1, 8) = <<137, 80, 78, 71, 13, 10, 26, 10>>
  THEN "image/png"
  ELSE Undefined

\* C24: after a successful probe the Content-Type header is the contentType
\* parameter whenever that is set, whether detection found the same type,
\* another one or none; with contentType auto it is the detected type.  The
\* compression flag is what detection gives (gzip auto: on iff the probed tile
\* is not an image and was not gzipped; else the gzip parameter), whatever
\* the contentType parameter says.
C24_ContentType ==
  phase = "ready" =>
    /\ headers.set
    /\ cfg.contentType # "auto" => headers.ct = cfg.contentType
    /\ cfg.contentType = "auto" =>
         headers.ct = Detected /\ Detected # Undefined
    /\ gzip = IF cfg.gzip # "auto" THEN cfg.gzip
              ELSE IF Detected \notin {"image/jpeg", "image/png"}
                      /\ ~IsGzip(ProbePayload)
              THEN "true" ELSE "false"

\* contentType set to image/png over a probe that returned an uncompressed
\* vector tile: the header is image/png and fetches are still compressed
C24_Witness ==
  /\ cfg.contentType = "image/png" /\ cfg.gzip = "auto"
  /\ phase = "ready" /\ probes[1].ans = Answer(<<<<Col(VTile)>>>>)
  /\ headers.ct = "image/png" /\ gzip = "true"
  /\ Len(calls) = 1 /\ calls[1].pc = "done"
  /\ calls[1].res.bytes = Gzip(VTile)

\* C25: a probe that passed marks its source as pre-compressed exactly when
\* the payload is gzip data, and keeps the gunzipped bytes; the content type
\* is read from the leading bytes of the tile data (the gunzipped bytes of
\* such a payload): first byte 0x1a or 0x28 is application/x-protobuf, else
\* leading ff d8 ff is image/jpeg, else leading 89 50 4e 47 0d 0a 1a 0a is
\* image/png, else it is undetermined.  With contentType auto and probes
\* that agree, init fails on an undetermined type and otherwise (the key
\* parameter permitting) succeeds with that type in the header.
C25_Detection ==
  /\ \A e \in Endpoints :
       probes[e].pc = "ok" =>
         /\ probes[e].status.isGziped <=> IsGzip(ProbeRow(e)[1].bytes)
         /\ probes[e].status.isGziped =>
              Gzip(probes[e].status.uncompressed) = ProbeRow(e)[1].bytes
  /\ (/\ AllProbed
      /\ \A e \in Endpoints : SameAsFirst(e)
      /\ cfg.contentType = "auto")
     => IF Detected = Undefined
        THEN phase = "failed" /\ initError = ErrContentType
        ELSE /\ KeyFits <=> phase = "ready"
             /\ phase = "ready" => headers.ct = Detected

\* a gzipped JPEG from the backend, contentType auto: detected as image/jpeg
\* behind the compression
C25_Witness ==
  /\ cfg.contentType = "auto"
  /\ probes[1].ans = Answer(<<<<Col(Gzip(JpgTile))>>>>)
  /\ probes[1].status.isGziped
  /\ phase = "ready" /\ headers.ct = "image/jpeg"

\* C26 as stated: with probing disabled init succeeds only if both the key
\* setting and the gzip setting are true or false; if either is left at auto
\* init fails with an error.
C26_Original ==
  (phase # "created" /\ cfg.testOnStartup.kind = "false") =>
    /\ phase = "ready" => cfg.key # "auto" /\ cfg.gzip # "auto"
    /\ (cfg.key = "auto" \/ cfg.gzip = "auto") =>
         phase = "failed" /\ initError # ""

\* C27 as stated: with probing disabled and key and gzip set, a fetch
\* succeeds on a single row with a non-empty first column iff the row has 2
\* columns when key is true and 1 when it is false; the payload carries the
\* key iff key is true, is compressed iff gzip is true, and the callback is
\* passed a headers object.
C27_Original ==
  \A c \in 1..Len(calls) :
    (/\ cfg.testOnStartup.kind = "false"
     /\ cfg.key # "auto" /\ cfg.gzip # "auto"
     /\ calls[c].ans.kind = "rows" /\ Len(calls[c].ans.rows) = 1
     /\ Len(calls[c].ans.rows[1]) >= 1
     /\ calls[c].ans.rows[1][1].bytes # <<>>)
    => /\ calls[c].res.kind = "tile" <=>
            Len(calls[c].ans.rows[1]) = (IF cfg.key = "true" THEN 2 ELSE 1)
       /\ calls[c].res.kind = "tile" =>
            /\ calls[c].res.key.def <=> cfg.key = "true"
            /\ calls[c].res.bytes = IF cfg.gzip = "true"
                                    THEN Gzip(Backend(c)) ELSE Backend(c)
            /\ headers.set

\* the testOnStartup string and what parseTestOnStartup returns for it
Raw == cfg.testOnStartup.raw

Parsed == parseTestOnStartup(maxCoords, cfg.testOnStartup)

Count(s, sep) == Cardinality({i \in 1..Len(s) : s[i] = sep})

\* the number of parts of a string: between slashes, or between commas when
\* it holds no slash
PartCount(s) ==
  IF Count(s, "/") > 0 THEN Count(s, "/") + 1 ELSE Count(s, ",") + 1

\* init threw the error of parseTestOnStartup before anything was probed
ParseFailed ==
  /\ ~Parsed.ok
  /\ phase # "created" =>
       phase = "failed" /\ initError = ErrTestOnStartup /\ sent = <<0>>

\* C28: parseTestOnStartup returns false for '', 'false' and '0', and init
\* then probes nothing; for 'z/x/y' and for 'z,x,y' with integers z, x, y it
\* returns the triple <<z, x, y>> when minzoom <= z <= maxzoom and x and y
\* lie in [0, 2^z), the same for both separators, and throws when the triple
\* is outside; it throws for a string that has not exactly 3 parts.
C28_ParseTestOnStartup ==
  /\ (Raw.def /\ Raw.s \in {<<>>, <<"f", "a", "l", "s", "e">>, <<"0">>}) =>
       /\ Parsed = [ok |-> TRUE, tile |-> <<>>]
       /\ probes[1].pc = "idle" /\ sent = <<0>>
       /\ phase \in {"created", "ready"}
  /\ \A t \in Triples :
       LET z == t[1]
           x == t[2]
           y == t[3]
       IN (\E sep \in {"/", ","} : Raw = Str(Triple(z, x, y, sep))) =>
            /\ \A sep \in {"/", ","} :
                 parseTestOnStartup(maxCoords,
                                    TestParam(Str(Triple(z, x, y, sep))))
                 = Parsed
            /\ IF /\ cfg.minzoom <= z /\ z <= cfg.maxzoom
                  /\ 0 <= x /\ x < 2 ^ z /\ 0 <= y /\ y < 2 ^ z
               THEN /\ Parsed = [ok |-> TRUE, tile |-> <<z, x, y>>]
                    /\ phase # "created" => sent = <<1>>
               ELSE ParseFailed
  /\ (Raw.def /\ Raw.s \notin OffStrings /\ PartCount(Raw.s) # 3) =>
       ParseFailed

\* zooms 0 to 1 and testOnStartup '1,1,0': the tile <<1, 1, 0>> was probed
\* and init succeeded
C28_Witness ==
  /\ cfg.maxzoom = 1
  /\ Raw = Str(<<"1", ",", "1", ",", "0">>)
  /\ Parsed.tile = <<1, 1, 0>>
  /\ probes[1].pc = "ok" /\ phase = "ready"

\* the zoom nearest to 14 inside [minzoom, maxzoom]
NearestZoom ==
  IF 14 < cfg.minzoom THEN cfg.minzoom
  ELSE IF 14 > cfg.maxzoom THEN cfg.maxzoom ELSE 14

\* a coordinate of zoom 14 carried to the zoom NearestZoom
AtNearestZoom(v) ==
  IF NearestZoom <= 14 THEN v \div (2 ^ (14 - NearestZoom))
  ELSE v * (2 ^ (NearestZoom - 14))

\* C29 as stated: when testOnStartup is not given, the test tile is
\* [14, 9268, 3575] when 14 is within [minzoom, maxzoom] and else the same
\* location at the nearest allowed zoom; it passes validateXY and the probe
\* of the default tile is never rejected for its zoom.
C29_Original ==
  (~Raw.def /\ phase # "created") =>
    /\ Parsed = [ok |-> TRUE,
                 tile |-> <<NearestZoom, AtNearestZoom(9268),
                            AtNearestZoom(3575)>>]
    /\ validateXY(maxCoords, Parsed.tile[1], Parsed.tile[2], Parsed.tile[3])
    /\ ~(phase = "failed" /\ initError = tileDoesNotExist)

\* a parameter given as a plain boolean string, and the boolean it stands for
Given(raw) ==
  raw.def /\ raw.s \in {<<"1">>, <<"t", "r", "u", "e">>, <<"0">>,
                        <<"f", "a", "l", "s", "e">>}

Meant(raw) ==
  IF raw.s \in {<<"1">>, <<"t", "r", "u", "e">>} THEN "true" ELSE "false"

\* C30 as stated: once init has succeeded after a probe, with gzip not
\* given and nogzip given the compression flag is the negation of nogzip;
\* with gzip given the flag is the gzip value.
C30_Original ==
  (phase = "ready" /\ probes[1].pc = "ok") =>
    /\ (~cfg.rawGzip.def /\ Given(cfg.rawNogzip)) =>
         gzip = (IF Meant(cfg.rawNogzip) = "true" THEN "false" ELSE "true")
    /\ Given(cfg.rawGzip) => gzip = Meant(cfg.rawGzip)

\* where call c stands, "none" before it is made
PcOf(c) == IF c <= Len(calls) THEN calls[c].pc ELSE "none"

\* C31: the callback of a getTile call is invoked only once its fetch has
\* settled, with the outcome of the fetch: a tile (then with the headers) or
\* an error, one of the two; once invoked it is not invoked again and the
\* outcome does not change; and every call whose fetch settles has its
\* callback invoked eventually.  The callback does not throw.
C31_CallbackOnce ==
  /\ [](\A c \in 1..Len(calls) :
          calls[c].pc \in {"settled", "done"} =>
            \/ /\ calls[c].res.kind = "tile"
               /\ calls[c].res.msg = "" /\ calls[c].res.bytes # <<>>
               /\ headers.set
            \/ /\ calls[c].res.kind = "error"
               /\ calls[c].res.msg # "" /\ calls[c].res.bytes = <<>>)
  /\ [][\A c \in 1..Len(calls) :
          /\ calls[c].pc = "done" => calls'[c] = calls[c]
          /\ (calls[c].pc # "done" /\ calls'[c].pc = "done") =>
               calls[c].pc = "settled" /\ calls'[c].res = calls[c].res]_vars
  /\ \A c \in 1..MaxCalls : (PcOf(c) = "settled") ~> (PcOf(c) = "done")

\* three calls: the callback of one got a tile, the callback of another the
\* error of its failed query, the third is still waiting for its rows
C31_Witness ==
  /\ Len(calls) = 3
  /\ \E c, d, e \in 1..3 :
       /\ calls[c].pc = "done" /\ calls[c].res.kind = "tile"
       /\ calls[d].pc = "done" /\ calls[d].res.kind = "error"
       /\ calls[d].ans = Failed
       /\ calls[e].pc = "querying"

\* the number of getTile queries endpoint e is still awaiting
Awaited(e) ==
  Cardinality({c \in 1..Len(calls) :
                 calls[c].pc = "querying" /\ calls[c].pool = e})

\* C32: a shutdownAsync promise resolves only when the pool of every endpoint
\* has ended; no shutdownAsync call fails, be it made while fetches are
\* outstanding or for the second time; and a getTile made after shutdown
\* ends with an error, never a tile, with the pending of its endpoint
\* given back.
C32_Original ==
  /\ \A s \in 1..Len(shutdowns) :
       /\ shutdowns[s].pc = "resolved" => \A e \in 1..N : Ended(e)
       /\ shutdowns[s].pc # "rejected"
  /\ \A c \in 1..Len(calls) :
       (shutdowns # <<>> /\ c > shutdowns[1].at
          /\ calls[c].pc \in {"settled", "done"}) =>
         calls[c].res.kind = "error"
  /\ phase = "ready" => \A e \in 1..N : pgpools[e].pending = Awaited(e)

\* the largest of the configured maxpool values
LargestConfigured ==
  CHOOSE m \in {cfg.maxpool[i] : i \in 1..Len(cfg.maxpool)} :
    \A i \in 1..Len(cfg.maxpool) : cfg.maxpool[i] <= m

\* C33: once init has succeeded no step of getTile (dispatch, answer of the
\* query, callback), getInfo or shutdownAsync changes useKeyColumn, gzip,
\* headers, maxCoords, the number of endpoints or a multiplier: of an
\* endpoint only pending changes.  At every moment the multiplier of each
\* endpoint is (largest configured maxpool) / (its own maxpool).
C33_Frame ==
  /\ [][phase = "ready" =>
          /\ useKeyColumn' = useKeyColumn
          /\ gzip' = gzip
          /\ headers' = headers
          /\ maxCoords' = maxCoords
          /\ Len(pgpools') = Len(pgpools)
          /\ \A e \in 1..Len(pgpools) :
               /\ pgpools'[e].multiplier = pgpools[e].multiplier
               /\ pgpools'[e] =
                    [pgpools[e] EXCEPT !.pending = pgpools'[e].pending]]_vars
  /\ [](/\ Len(pgpools) = Len(cfg.maxpool)
        /\ \A e \in 1..Len(pgpools) :
             /\ pgpools[e].multiplier.den # 0
             /\ pgpools[e].multiplier.num * cfg.maxpool[e] =
                  LargestConfigured * pgpools[e].multiplier.den)

\* two endpoints of maxpool 2 and 1: the second has multiplier 2; tiles were
\* fetched from both, one call is still waiting, and a shutdown is under way
C33_Witness ==
  /\ phase = "ready"
  /\ cfg.maxpool = <<2, 1>>
  /\ pgpools[2].multiplier.num = 2 * pgpools[2].multiplier.den
  /\ pgpools[1].pending = 1
  /\ Len(calls) = 3
  /\ \E c, d \in 1..3 :
       /\ calls[c].pc = "done" /\ calls[c].pool = 1 /\ calls[c].res.kind = "tile"
       /\ calls[d].pc = "done" /\ calls[d].pool = 2 /\ calls[d].res.kind = "tile"
  /\ shutdowns # <<>> /\ shutdowns[1].pc = "ending"

\* C34: until the startup probe has finished the field errorsAsEmpty is
\* unset, whatever the parameter says, and it is the parameter once init has
\* succeeded; a probe query that fails while init is waiting makes init fail
\* with the error of the query, and whenever a probe query has failed init
\* has failed with an error other than 'Tile does not exist'.
C34_ErrorsAfterProbe ==
  /\ [](/\ phase \in {"created", "probing", "failed"} =>
             errorsAsEmpty = "undefined"
        /\ phase = "ready" => errorsAsEmpty = cfg.errorsAsEmpty
        /\ \A e \in 1..Len(probes) :
             probes[e].ans.kind = "fail" =>
               phase = "failed" /\ initError # "Tile does not exist")
  /\ [][\A e \in 1..Len(probes) :
          (phase = "probing" /\ probes[e].pc = "querying"
             /\ probes'[e].ans.kind = "fail") =>
            (phase' = "failed" /\ initError' = ErrUpstream)]_vars

\* errorsAsEmpty is configured, the probe query of the second endpoint has
\* failed while the first is still asked: init has failed with the error of
\* the query
C34_Witness ==
  /\ cfg.errorsAsEmpty = "true"
  /\ Len(probes) = 2
  /\ probes[1].pc = "querying"
  /\ probes[2].ans.kind = "fail"
  /\ phase = "failed"
  /\ initError = ErrUpstream
  /\ errorsAsEmpty = "undefined"

\* the maxpool strings init was given ("10" when the parameter is absent)
GivenPools ==
  IF cfg.rawMaxpool.def
  THEN {cfg.rawMaxpool.s[i] : i \in 1..Len(cfg.rawMaxpool.s)}
  ELSE {<<"1", "0">>}

\* C35: after a successful init the maxpool of every endpoint is a positive
\* integer, every multiplier is a finite number >= 1 and multiplier * pending
\* is a finite number; an init given a maxpool of 0 does not succeed.
C35_Original ==
  phase = "ready" =>
    /\ \A e \in 1..Len(pgpools) :
         /\ cfg.maxpool[e] \in Nat \ {0}
         /\ pgpools[e].multiplier.den # 0
         /\ pgpools[e].multiplier.num >= pgpools[e].multiplier.den
         /\ Times(pgpools[e].multiplier, pgpools[e].pending).k = "fin"
    /\ <<"0">> \notin GivenPools

\* two endpoints of one and the same positive maxpool
TwoEqual ==
  /\ Len(pgpools) = 2
  /\ cfg.maxpool[1] = cfg.maxpool[2]
  /\ cfg.maxpool[1] > 0

\* C36: the step of a getTile call for a valid coordinate that selects the
\* endpoint also adds one to the pending of that endpoint and leaves the
\* other endpoints alone, so the next selection, by whatever call, sees it.
\* With two endpoints of equal weight: a call made when both are idle leaves
\* exactly one of them with pending 1, and a call made when one is idle and
\* the other has one query goes to the idle one; two calls back to back on
\* two idle endpoints are thus dispatched to different endpoints.
C36_AtomicDispatch ==
  [][(Len(calls') = Len(calls) + 1) =>
       LET p == calls'[Len(calls')].pool
       IN /\ calls'[Len(calls')].pc = "querying"
          /\ pgpools'[p].pending = pgpools[p].pending + 1
          /\ \A e \in 1..Len(pgpools) : e # p => pgpools'[e] = pgpools[e]
          /\ TwoEqual =>
               /\ (pgpools[1].pending = 0 /\ pgpools[2].pending = 0) =>
                    pgpools'[1].pending + pgpools'[2].pending = 1
               /\ (pgpools[1].pending = 1 /\ pgpools[2].pending = 0) => p = 2
               /\ (pgpools[1].pending = 0 /\ pgpools[2].pending = 1) => p = 1]_vars

\* two endpoints of maxpool 2 each, idle at first: the first call went to
\* endpoint 1, the second to endpoint 2, both queries are still awaited
C36_Witness ==
  /\ TwoEqual
  /\ Len(calls) = 2
  /\ calls[1].pc = "querying" /\ calls[1].pool = 1
  /\ calls[2].pc = "querying" /\ calls[2].pool = 2
  /\ pgpools[1].pending = 1 /\ pgpools[2].pending = 1

\* what the probe row of the first endpoint shows: a second column or none
Observed == IF Len(ProbeRow(1)) = 2 THEN "true" ELSE "false"

\* nothing but the key parameter can make init fail: the probes passed and
\* agree, and the content type is detected or configured
OnlyKeyLeft ==
  /\ AllProbed
  /\ \A e \in Endpoints : SameAsFirst(e)
  /\ Detected # "undefined" \/ cfg.contentType # "auto"

\* C37: when init succeeds useKeyColumn is what the probe row showed (a
\* valid hex second column or none), and a key parameter that was set says
\* the same; when every probe passed and the key parameter is set to the
\* opposite of what the row showed, init has failed, with the error about the
\* key parameter when nothing else was wrong.
C37_KeyParameter ==
  /\ phase = "ready" =>
       /\ useKeyColumn = Observed
       /\ cfg.key \in {"auto", Observed}
  /\ (AllProbed /\ cfg.key \notin {"auto", Observed}) =>
       /\ phase = "failed"
       /\ OnlyKeyLeft => initError = ErrKeyParam

\* key=false and key=true both met the opposite row on two agreeing
\* endpoints: here the row has a hex key and key is false
C37_Witness ==
  /\ Len(pgpools) = 2
  /\ OnlyKeyLeft
  /\ cfg.key = "false"
  /\ Observed = "true"
  /\ phase = "failed"
  /\ initError = ErrKeyParam

\* the tile data of the probe carry none of the known signatures
Unrecognized ==
  /\ ProbeData[1] \notin {26, 40}
  /\ ~ProbeIsImage

\* C38: when every probe passed with a payload of no known signature, init
\* has failed if contentType is auto (with the content type error when the
\* endpoints agree); if contentType is set, the endpoints agree and the key
\* parameter fits, init has succeeded, Content-Type is the parameter and the
\* compression flag is the gzip parameter when that is set and otherwise on
\* iff the probe payload was not gzip data.
C38_Unrecognized ==
  (AllProbed /\ Unrecognized) =>
    /\ cfg.contentType = "auto" =>
         /\ phase = "failed"
         /\ (\A e \in Endpoints : SameAsFirst(e)) =>
              initError = ErrContentType
    /\ (cfg.contentType # "auto" /\ KeyFits
          /\ \A e \in Endpoints : SameAsFirst(e)) =>
         /\ phase = "ready"
         /\ headers.ct = cfg.contentType
         /\ gzip = IF cfg.gzip # "auto" THEN cfg.gzip
                   ELSE IF IsGzip(ProbePayload) THEN "false" ELSE "true"

\* an unrecognized payload that is not gzip data, contentType set, gzip auto:
\* init succeeded and the fetched tile came out compressed
C38_Witness ==
  /\ AllProbed /\ Unrecognized
  /\ ~IsGzip(ProbePayload)
  /\ cfg.contentType = "my-content" /\ cfg.gzip = "auto"
  /\ phase = "ready"
  /\ gzip = "true"
  /\ headers.ct = "my-content"
  /\ Len(calls) = 1 /\ calls[1].pc = "done" /\ calls[1].res.kind = "tile"
  /\ IsGzip(calls[1].res.bytes)

\* how many times the callback of call c has been invoked
Invocations(c) ==
  CASE calls[c].pc \in {"done", "threw"} -> 1
    [] calls[c].pc = "again" -> 2
    [] OTHER -> 0

\* C39: the callback of a getTile call is invoked at most once, also when it
\* throws while it is invoked with the tile or with the error.
C39_Original == \A c \in 1..Len(calls) : Invocations(c) <= 1

====
